---------------------------- MODULE Spec2Model ----------------------------
(***************************************************************************)
(* A model of the UniStacker backend: the scrape job of                    *)
(* backend/dulms_public.py (run_dulms_scraper, login, solve_captcha_api,   *)
(* navigate_to_page, scrape_quizzes / scrape_assignments, the deadline     *)
(* evaluation and the alert sender) and the job wrapper of backend/main.py.*)
(*                                                                         *)
(* The worker thread is one sequential program: pc is its position, and    *)
(* the nested calls (wrapper -> run -> login -> solve) share it.  The      *)
(* browser, the portal, the CAPTCHA service and the webhook are the        *)
(* environment: every call into them draws its outcome with \E.            *)
(*                                                                         *)
(* Eleven specifications exercise the same actions:                        *)
(*   Spec       one job: trigger_scraper has queued it, the worker runs    *)
(*              run_scraper_task_wrapper, a client may end its stream;     *)
(*   SpecLogin  one call of login(driver, ..., max_retries);               *)
(*   SpecSolve  one call of solve_captcha_api(api_key, image, retries);    *)
(*   SpecScrape one call of scrape_quizzes or scrape_assignments;          *)
(*   SpecItem   one pass of their item loops, on one item;                 *)
(*   SpecParse  one call of parse_date;                                    *)
(*   SpecCheck  one call of check_upcoming_deadlines;                      *)
(*   SpecAlerts one call of send_deadline_alerts;                          *)
(*   SpecClick  one call of click_element_robustly;                        *)
(*   SpecStream one job with its client's stream_logs generator, the run   *)
(*              reduced to its log records and its outcome;                *)
(*   SpecLoggers two runs of run_dulms_scraper on two threads, reduced to  *)
(*              their use of the module logger.                            *)
(***************************************************************************)
EXTENDS Integers, Sequences, FiniteSets, TLC

VARIABLES
    entry,            \* the function the specification calls: "job", "login", "solve", "scrape", "item", "parse", "check", "alerts", "click", "stream", "loggers"
    pc,               \* position of the worker thread
    \* ---- main.py: the per-job dictionaries and the stream
    task_queues,      \* TRUE iff task_queues holds the job's queue
    task_statuses,    \* "absent" or the job's status
    task_results,     \* NoResult or the stored result
    log_queue,        \* the lines the wrapper put on the job's queue
    streamEnded,      \* the client's stream has run its cleanup
    \* ---- run_dulms_scraper
    driver,           \* "none" (None), "open", "closed" (quit was called)
    quitCalls,        \* number of driver.quit() calls
    scraped_data,     \* [quizzes |-> ExtractionResult, assignments |-> ExtractionResult]
    phase,            \* the phase the run is in
    runOutcome,       \* "none", "returned", "raised"
    runError,         \* the error run_dulms_scraper raised
    navigated,        \* pages navigate_to_page was called for
    scraped,          \* content types whose scrape function was called
    navFailed,        \* content types whose navigate_to_page returned False
    evaluated,        \* check_upcoming_deadlines was called
    alertPosts,       \* number of webhook POSTs
    dateRaised,       \* parse_date raised inside evaluation or the quality report
    discord_webhook,  \* the run's webhook argument: "unread" until line 946 reads it
    upcoming_deadlines, \* number of deadlines check_upcoming_deadlines returned
    \* ---- login
    max_retries,      \* login's parameter
    attempt,          \* loop index of login, 0-based
    loginOutcome,     \* "none", "returned", "raised"
    loginError,       \* "none", "MaxAttempts", "InvalidCredentials", "DriverError"
    loginGets,        \* number of driver.get(LOGIN_URL) calls
    retryFails,       \* attempts that ended at the retry check of line 354
    att,              \* what the current attempt did so far (a record of flags)
    exc,              \* the exception the current attempt raised, "none" if none
    url,              \* the browser's current page
    pageMsg,          \* what the page source reports
    \* ---- solve_captcha_api
    retries,          \* its parameter
    sAttempt,         \* loop index `attempt` of solve_captcha_api
    poll_attempt,     \* polls made for the current task
    creates,          \* createTask submissions of this call
    failedAttempts,   \* attempts of this call that ended in an except clause
    solveOutcome,     \* "none", "returned", "raised"
    solution,         \* the value returned: "" is None
    lastReply,        \* the last reply of the CAPTCHA service, "poll_timeout" after 10 polls
    \* ---- scrape_quizzes / scrape_assignments
    kind,             \* the content type being scraped: "quizzes", "assignments", "none"
    courses,          \* number of course sections find_elements returned
    index,            \* loop index over the course sections
    results,          \* the ExtractionResult under construction
    scrapeOutcome,    \* "none", "returned", "raised"
    sectionsShown,    \* course sections the portal has shown to this job so far
    fates,            \* the path each pass of the course loop took, in order
    itemReads,        \* what reading each field of the item at hand comes to, "none" outside
    item,             \* what the extraction of that item came to, "none" before
    itemsShown,       \* items the portal has shown to this job so far
    \* ---- parse_date
    date_str,         \* the string parse_date is called with, "none" outside it
    now,              \* what datetime.now() gives: day (proleptic ordinal) and hour
    deadline,         \* what the call came to, "none" before
    \* ---- check_upcoming_deadlines
    data,             \* its argument: the three lists of records
    days_threshold,   \* its argument
    lag,              \* minutes from its datetime.now() to those of parse_date
    upcoming,         \* the list it returns
    checkOutcome,     \* "none", "returned", "raised"
    \* ---- send_deadline_alerts
    webhook_url,      \* its argument: "none", "invalid" or "valid"
    upcoming_tasks,   \* its argument: the deadlines, each known by its number
    chunk,            \* the batch the loop of line 810 is at
    posts,            \* the requests made, in order
    errorLogged,      \* the error of line 786 was logged
    alertOutcome,     \* "none", "returned", "raised"
    \* ---- click_element_robustly
    click,            \* its call: the element, what each step comes to, the outcome
    \* ---- main.py: stream_logs
    stream,           \* the generator of the job's client and what it has sent
    \* ---- the module logger of dulms_public.py under two runs
    loggers           \* its QueueHandlers, and each run's position and queue

jobVars    == <<task_queues, task_statuses, task_results, log_queue, streamEnded>>
runVars    == <<driver, quitCalls, scraped_data, phase, runOutcome, runError,
                navigated, scraped, navFailed, evaluated, alertPosts, dateRaised,
                discord_webhook, upcoming_deadlines>>
loginVars  == <<max_retries, attempt, loginOutcome, loginError, loginGets,
                retryFails, att, exc, url, pageMsg>>
solveVars  == <<retries, sAttempt, poll_attempt, creates, failedAttempts,
                solveOutcome, solution, lastReply>>
scrapeVars == <<kind, courses, index, results, scrapeOutcome, sectionsShown, fates,
               itemReads, item, itemsShown>>
dateVars   == <<date_str, now, deadline>>
checkVars  == <<data, days_threshold, lag, upcoming, checkOutcome>>
alertVars  == <<webhook_url, upcoming_tasks, chunk, posts, errorLogged, alertOutcome>>
vars == <<entry, pc, jobVars, runVars, loginVars, solveVars, scrapeVars, dateVars,
          checkVars, alertVars, click, stream, loggers>>

---------------------------------------------------------------------------
(* Bounds of the model. *)
MaxSolveArg == 3      \* solve_captcha_api is called with retries in 0..MaxSolveArg
MaxRetriesArg == 3    \* login is called with max_retries in 0..MaxRetriesArg
MaxCourses == 2       \* course sections the portal shows to one job, over its listing pages
MaxItems == 2         \* items the portal shows to one job, over all its course sections

(* Program constants. *)
MAX_LOGIN_RETRIES == 3
CAPTCHA_SOLVE_RETRIES == 3
PollLimit == 10

---------------------------------------------------------------------------
(* solve_captcha_api *)

\* What the createTask round trip can come to (lines 180-187, 218-220).
CreateReplies == {"network_error", "error_id", "no_task_id", "task"}

\* What one getTaskResult round trip can come to (lines 196-214).
PollReplies == {"network_error", "ready_text", "ready_empty", "processing", "error_status"}

\* Lines 184-187, 218-220: the attempt goes on to poll only with errorId 0 and a task id.
CreateVerdict(reply) == IF reply = "task" THEN "poll" ELSE "except"

\* Lines 196-214: what a poll reply does to the attempt.
PollVerdict(reply) ==
    CASE reply = "ready_text"  -> "return"
      [] reply = "processing"  -> "continue"
      [] OTHER                  -> "except"

\* A faulty variant of the retry test of line 229: one attempt too many.
SolveRetry_OneMore(a, r) == a < r

\* Line 229: after a failed attempt, whether another one follows.
SolveRetry(a, r) == a < r - 1

\* Line 169: range(retries) is empty for retries <= 0; the function then
\* falls off its end and returns None.
SolveEnter ==
    /\ pc = "solve_enter"
    /\ sAttempt' = 0
    /\ poll_attempt' = 0
    /\ creates' = 0
    /\ failedAttempts' = 0
    /\ lastReply' = "none"
    /\ IF retries > 0
       THEN /\ pc' = "solve_create"
            /\ UNCHANGED <<solveOutcome, solution>>
       ELSE /\ pc' = "solve_ret"
            /\ solveOutcome' = "returned"
            /\ solution' = ""
    /\ UNCHANGED <<entry, click, stream, loggers, dateVars, checkVars, alertVars, retries, jobVars, runVars, loginVars, scrapeVars>>

\* Lines 171-191, 218-227: submit the task; every failure lands in an except clause.
SolveCreate ==
    /\ pc = "solve_create"
    /\ creates' = creates + 1
    /\ poll_attempt' = 0
    /\ \E reply \in CreateReplies :
          /\ lastReply' = reply
          /\ IF CreateVerdict(reply) = "poll"
             THEN /\ pc' = "solve_poll"
                  /\ UNCHANGED failedAttempts
             ELSE /\ pc' = "solve_failed"
                  /\ failedAttempts' = failedAttempts + 1
    /\ UNCHANGED <<entry, click, stream, loggers, dateVars, checkVars, alertVars, retries, sAttempt, solveOutcome, solution,
                   jobVars, runVars, loginVars, scrapeVars>>

\* Lines 193-214: one poll of the task.
SolvePoll ==
    /\ pc = "solve_poll"
    /\ poll_attempt < PollLimit
    /\ poll_attempt' = poll_attempt + 1
    /\ \E reply \in PollReplies :
          /\ lastReply' = reply
          /\ CASE PollVerdict(reply) = "return" ->
                  /\ pc' = "solve_ret"
                  /\ solveOutcome' = "returned"
                  /\ solution' = "text"
                  /\ UNCHANGED failedAttempts
               [] PollVerdict(reply) = "continue" ->
                  /\ pc' = "solve_poll"
                  /\ UNCHANGED <<failedAttempts, solveOutcome, solution>>
               [] OTHER ->
                  /\ pc' = "solve_failed"
                  /\ failedAttempts' = failedAttempts + 1
                  /\ UNCHANGED <<solveOutcome, solution>>
    /\ UNCHANGED <<entry, click, stream, loggers, dateVars, checkVars, alertVars, retries, sAttempt, creates,
                   jobVars, runVars, loginVars, scrapeVars>>

\* Lines 216, 224-225: the poll loop ran out; TimeoutException, caught at 224.
SolvePollExhausted ==
    /\ pc = "solve_poll"
    /\ poll_attempt = PollLimit
    /\ pc' = "solve_failed"
    /\ failedAttempts' = failedAttempts + 1
    /\ lastReply' = "poll_timeout"
    /\ UNCHANGED <<entry, click, stream, loggers, dateVars, checkVars, alertVars, retries, sAttempt, poll_attempt, creates, solveOutcome,
                   solution, jobVars, runVars, loginVars, scrapeVars>>

\* Lines 229-234: retry after a failed attempt, or raise after the last one.
SolveFailed ==
    /\ pc = "solve_failed"
    /\ IF SolveRetry(sAttempt, retries)
       THEN /\ sAttempt' = sAttempt + 1
            /\ pc' = "solve_create"
            /\ UNCHANGED <<solveOutcome, solution>>
       ELSE /\ pc' = "solve_ret"
            /\ solveOutcome' = "raised"
            /\ solution' = ""
            /\ UNCHANGED sAttempt
    /\ UNCHANGED <<entry, click, stream, loggers, dateVars, checkVars, alertVars, retries, poll_attempt, creates, failedAttempts, lastReply,
                   jobVars, runVars, loginVars, scrapeVars>>

NextSolve == SolveEnter \/ SolveCreate \/ SolvePoll \/ SolvePollExhausted \/ SolveFailed

---------------------------------------------------------------------------
(* login *)

\* The exceptions a browser call can raise, by the except clause that takes
\* them: TimeoutException and NoSuchElementException are caught at line 320,
\* everything else ("Other") at line 329.
DriverErrs == {"Timeout", "NoSuchElement", "Other"}

\* What the portal can answer to a submitted login form: where the browser
\* ends up and what the page reports.
PortalReplies == {"profile", "invalid_credentials", "invalid_captcha", "login_other", "elsewhere"}

PortalUrl(reply) ==
    CASE reply = "profile"   -> "Profile/StudentProfile"
      [] reply = "elsewhere" -> "elsewhere"
      [] OTHER               -> "Login.aspx"

PortalMsg(reply) ==
    CASE reply = "invalid_credentials" -> "Invalid username or password"
      [] reply = "invalid_captcha"     -> "Invalid Security Code"
      [] OTHER                         -> "none"

\* The flags of one login attempt, as the attempt starts.
NoFlags == [typed |-> FALSE, captured |-> FALSE, solveRequested |-> FALSE,
            submitted |-> FALSE, fieldsMissing |-> FALSE, captchaRaised |-> FALSE]

\* Lines 320 and 329: the except clause an exception of the try body reaches.
\* The clause of line 320 only logs and falls through to the retry check; the
\* clause of line 329 goes on to read the page (lines 339-351).
Handler(e) == IF e \in {"Timeout", "NoSuchElement"} THEN "login_retry" ELSE "login_classify"

\* Lines 342-351: what the page inspection decides.
Classify(u, msg) ==
    IF u = "Login.aspx" /\ msg = "Invalid username or password" THEN "raise" ELSE "retry"

\* A faulty variant of line 295 that forgets the CAPTCHA input field.
FieldsPresent_NoCaptcha(u, p, c) == u /\ p

\* Line 295: all([username_field, password_field, captcha_input]); each is
\* TRUE when wait_for_element returned the element, FALSE when it returned None.
FieldsPresent(u, p, c) == u /\ p /\ c

\* A faulty variant of the retry test of line 354: one attempt too many.
RetryAllowed_OneMore(a, m) == a < m

\* Line 354: whether another attempt follows a failed one.
RetryAllowed(a, m) == a < m - 1

\* Lines 236-279, get_captcha_image_base64: the image, or the exception it
\* re-raises.  wait: the wait for the image element; shot: the element
\* screenshot; fb: the page-screenshot fallback of lines 250-272.
CaptureOutcome(wait, shot, fb) ==
    CASE wait = "timeout"  -> "Timeout"
      [] wait = "error"    -> "Other"
      [] shot = "ok"       -> "image"
      [] fb = "ok"         -> "image"
      [] fb = "zero_size"  -> "Other"
      [] OTHER             -> fb

\* Line 286: range(max_retries) is empty for max_retries <= 0; login then
\* falls off its end and returns.
LoginEnter ==
    /\ pc = "login_enter"
    /\ attempt' = 0
    /\ loginGets' = 0
    /\ retryFails' = 0
    /\ att' = NoFlags
    /\ exc' = "none"
    /\ loginError' = "none"
    /\ IF max_retries > 0
       THEN pc' = "login_get" /\ loginOutcome' = "none"
       ELSE pc' = "login_ret" /\ loginOutcome' = "returned"
    /\ UNCHANGED <<entry, click, stream, loggers, dateVars, checkVars, alertVars, max_retries, url, pageMsg, jobVars, runVars, solveVars, scrapeVars>>

\* Line 289: driver.get(LOGIN_URL) starts an attempt.
LoginGet ==
    /\ pc = "login_get"
    /\ loginGets' = loginGets + 1
    /\ \E r \in {"ok"} \cup DriverErrs :
          IF r = "ok"
          THEN /\ url' = "Login.aspx"
               /\ pageMsg' = "none"
               /\ exc' = "none"
               /\ pc' = "login_fields"
          ELSE /\ exc' = r
               /\ pc' = Handler(r)
               /\ UNCHANGED <<url, pageMsg>>
    /\ UNCHANGED <<entry, click, stream, loggers, dateVars, checkVars, alertVars, max_retries, attempt, loginOutcome, loginError, retryFails, att,
                   jobVars, runVars, solveVars, scrapeVars>>

\* Lines 291-301: wait for the three fields (wait_for_element returns None
\* for a field that does not show), raise when one is missing, else type the
\* credentials.
LoginFields ==
    /\ pc = "login_fields"
    /\ \E u \in BOOLEAN, p \in BOOLEAN, c \in BOOLEAN,
          r \in {"ok"} \cup DriverErrs, some \in BOOLEAN :
          IF ~FieldsPresent(u, p, c)
          THEN /\ att' = [att EXCEPT !.fieldsMissing = TRUE]
               /\ exc' = "Other"
               /\ pc' = Handler("Other")
          ELSE IF r = "ok"
          THEN /\ att' = [att EXCEPT !.typed = TRUE, !.fieldsMissing = ~(u /\ p /\ c)]
               /\ exc' = "none"
               /\ pc' = "login_capture"
          ELSE /\ att' = [att EXCEPT !.typed = some, !.fieldsMissing = ~(u /\ p /\ c)]
               /\ exc' = r
               /\ pc' = Handler(r)
    /\ UNCHANGED <<entry, click, stream, loggers, dateVars, checkVars, alertVars, max_retries, attempt, loginOutcome, loginError, loginGets,
                   retryFails, url, pageMsg, jobVars, runVars, solveVars, scrapeVars>>

\* Lines 303-304: capture the CAPTCHA image, then call solve_captcha_api with
\* its default retries.
LoginCapture ==
    /\ pc = "login_capture"
    /\ \E wait \in {"visible", "timeout", "error"}, shot \in {"ok", "fail"},
          fb \in {"ok", "zero_size"} \cup DriverErrs :
          LET r == CaptureOutcome(wait, shot, fb) IN
          IF r = "image"
          THEN /\ att' = [att EXCEPT !.captured = TRUE, !.solveRequested = TRUE]
               /\ exc' = "none"
               /\ retries' = CAPTCHA_SOLVE_RETRIES
               /\ pc' = "solve_enter"
          ELSE /\ att' = [att EXCEPT !.captured = TRUE, !.captchaRaised = TRUE]
               /\ exc' = r
               /\ pc' = Handler(r)
               /\ UNCHANGED retries
    /\ UNCHANGED <<entry, click, stream, loggers, dateVars, checkVars, alertVars, max_retries, attempt, loginOutcome, loginError, loginGets,
                   retryFails, url, pageMsg, jobVars, runVars, scrapeVars,
                   sAttempt, poll_attempt, creates, failedAttempts, solveOutcome,
                   solution, lastReply>>

\* Lines 304-307: solve_captcha_api came back; its exception is the attempt's,
\* its text is typed into the CAPTCHA field (send_keys(None) raises TypeError).
LoginAfterSolve ==
    /\ pc = "solve_ret"
    /\ entry # "solve"
    /\ \E r \in {"ok"} \cup DriverErrs :
          IF solveOutcome = "raised"
          THEN /\ att' = [att EXCEPT !.captchaRaised = TRUE]
               /\ exc' = "Other"
               /\ pc' = Handler("Other")
          ELSE IF solution = ""
          THEN /\ exc' = "Other"
               /\ pc' = Handler("Other")
               /\ UNCHANGED att
          ELSE IF r = "ok"
          THEN /\ exc' = "none"
               /\ pc' = "login_submit"
               /\ UNCHANGED att
          ELSE /\ exc' = r
               /\ pc' = Handler(r)
               /\ UNCHANGED att
    /\ sAttempt' = 0 /\ poll_attempt' = 0 /\ creates' = 0 /\ failedAttempts' = 0
    /\ solveOutcome' = "none" /\ solution' = "" /\ lastReply' = "none"
    /\ UNCHANGED <<entry, click, stream, loggers, dateVars, checkVars, alertVars, max_retries, attempt, loginOutcome, loginError, loginGets,
                   retryFails, url, pageMsg, retries, jobVars, runVars, scrapeVars>>

\* Line 310: ENTER in the password field submits the form; the portal answers.
LoginSubmit ==
    /\ pc = "login_submit"
    /\ \E r \in {"ok"} \cup DriverErrs, reply \in PortalReplies :
          IF r = "ok"
          THEN /\ att' = [att EXCEPT !.submitted = TRUE]
               /\ url' = PortalUrl(reply)
               /\ pageMsg' = PortalMsg(reply)
               /\ exc' = "none"
               /\ pc' = "login_wait"
          ELSE /\ exc' = r
               /\ pc' = Handler(r)
               /\ UNCHANGED <<att, url, pageMsg>>
    /\ UNCHANGED <<entry, click, stream, loggers, dateVars, checkVars, alertVars, max_retries, attempt, loginOutcome, loginError, loginGets,
                   retryFails, jobVars, runVars, solveVars, scrapeVars>>

\* Lines 312-318: wait for the profile URL (TimeoutException when it never
\* shows), log driver.current_url, dismiss notifications (which absorbs its
\* own failures) and return.
LoginWait ==
    /\ pc = "login_wait"
    /\ \E r \in {"ok", "Timeout", "Other"} :
          /\ (r = "ok") => (url = "Profile/StudentProfile")
          /\ (r = "Timeout") => (url # "Profile/StudentProfile")
          /\ IF r = "ok"
             THEN /\ loginOutcome' = "returned"
                  /\ exc' = "none"
                  /\ pc' = "login_ret"
             ELSE /\ exc' = r
                  /\ pc' = Handler(r)
                  /\ UNCHANGED loginOutcome
    /\ UNCHANGED <<entry, click, stream, loggers, dateVars, checkVars, alertVars, max_retries, attempt, loginError, loginGets, retryFails, att,
                   url, pageMsg, jobVars, runVars, solveVars, scrapeVars>>

\* Lines 339-351, inside the except clause of line 329: read current_url and
\* page_source (a failing read leaves login as it is raised: nothing guards
\* it), raise on reported bad credentials, else fall through to line 354.
LoginClassify ==
    /\ pc = "login_classify"
    /\ \E readOk \in BOOLEAN :
          IF ~readOk
          THEN /\ loginOutcome' = "raised"
               /\ loginError' = "DriverError"
               /\ pc' = "login_ret"
          ELSE IF Classify(url, pageMsg) = "raise"
          THEN /\ loginOutcome' = "raised"
               /\ loginError' = "InvalidCredentials"
               /\ pc' = "login_ret"
          ELSE /\ pc' = "login_retry"
               /\ UNCHANGED <<loginOutcome, loginError>>
    /\ UNCHANGED <<entry, click, stream, loggers, dateVars, checkVars, alertVars, max_retries, attempt, loginGets, retryFails, att, exc,
                   url, pageMsg, jobVars, runVars, solveVars, scrapeVars>>

\* Lines 354-359: sleep and start the next attempt, or raise after the last.
LoginRetry ==
    /\ pc = "login_retry"
    /\ retryFails' = retryFails + 1
    /\ IF RetryAllowed(attempt, max_retries)
       THEN /\ attempt' = attempt + 1
            /\ att' = NoFlags
            /\ exc' = "none"
            /\ pc' = "login_get"
            /\ UNCHANGED <<loginOutcome, loginError>>
       ELSE /\ loginOutcome' = "raised"
            /\ loginError' = "MaxAttempts"
            /\ pc' = "login_ret"
            /\ UNCHANGED <<attempt, att, exc>>
    /\ UNCHANGED <<entry, click, stream, loggers, dateVars, checkVars, alertVars, max_retries, loginGets, url, pageMsg,
                   jobVars, runVars, solveVars, scrapeVars>>

NextLogin ==
    \/ LoginEnter \/ LoginGet \/ LoginFields \/ LoginCapture \/ LoginAfterSolve
    \/ LoginSubmit \/ LoginWait \/ LoginClassify \/ LoginRetry
    \/ NextSolve

---------------------------------------------------------------------------
(* scrape_quizzes / scrape_assignments: one algorithm, two content types *)

\* Lines 914-917 of dulms_public.py: the ExtractionResult a run starts with,
\* which is also what scrape_quizzes / scrape_assignments start from (lines
\* 441-449, 561-568).
EmptyResult ==
    [records |-> 0, courses_processed |-> 0, total_found |-> 0,
     courses_found_on_page |-> <<>>, courses_with_no_items |-> <<>>,
     courses_failed_expansion |-> <<>>]


\* The names a course section can show.
CourseNames == {"A"}

\* Lines 471, 590: the label a section gets until its name is read.
DefaultName(i) ==
    <<"Unknown Course 1", "Unknown Course 2", "Unknown Course 3",
      "Unknown Course 4", "Unknown Course 5", "Unknown Course 6">>[i]

\* TRUE iff name x is an element of sequence q.
InSeq(x, q) == \E j \in 1..Len(q) : q[j] = x

\* What the extraction of one item can meet first: nothing, a stale-element
\* error, or another exception.
ItemFaults == {"none", "stale", "error"}

\* The items of one course section, as the faults their extractions meet.
ItemRuns == UNION {[1..n -> ItemFaults] : n \in 0..MaxItems}

\* An item loop that gives up no item.
ItemRecorded_Always(fault) == TRUE

\* Lines 535-543, 673-682: an item whose extraction met a stale element is
\* skipped; any other item is appended to the records, whole or through the
\* error path.
ItemRecorded(fault) == fault # "stale"

\* A faulty variant of lines 507, 626 that counts the items recorded.
FoundIn_Recorded(items) == Cardinality({j \in 1..Len(items) : items[j] # "stale"})

\* Lines 507, 626: the item elements located in a section, all added to the
\* total counter before the item loop begins.
FoundIn(items) == Len(items)

\* Lines 508-543, 626-682: the number of records the item loop appends.
RecordsOf(items) == Cardinality({j \in 1..Len(items) : ItemRecorded(items[j])})

\* The exceptions the reading of a field can raise, by the except clause of
\* the item loop that takes them.
Faults == {"stale", "error"}

\* What reading the fields of a quiz item comes to (lines 511-527): the text
\* read ("" also for an element that is not there), or the exception raised;
\* for the attempts, "absent" is the element that is not there.
QuizReads ==
    [name     : {"Quiz 1", ""} \cup Faults,
     status   : {"Closed at: Dec 5, 2024 at 11:59 PM",
                 "Will be opened at: Dec 1, 2024 at 9:00 AM", ""} \cup Faults,
     grade    : {"8/10", "Pending", "--", ""} \cup Faults,
     attempts : {"2", "absent"} \cup Faults]

\* What reading the fields of an assignment item comes to (lines 630-668).
\* submit and date are the direct elements (.submit-status, .assign-status):
\* their text, or "absent"; submit_scan and date_scan are what the scans of
\* lines 638-644 and 655-660 find: the first matching text, or "none".
AssignmentReads ==
    [name        : {"HW 1", ""} \cup Faults,
     submit      : {"Submitted", "absent"} \cup Faults,
     submit_scan : {"Not Submitted", "none"} \cup Faults,
     date        : {"Closed at: Dec 5, 2024 at 11:59 PM",
                    "Will be closed after: 2 days 3 hours", "", "absent"} \cup Faults,
     date_scan   : {"Dec 6, 2024 at 10:00 AM", "none"} \cup Faults,
     grade       : {"Graded", "--", ""} \cup Faults]

\* The reads an extraction makes, in the order it makes them: the scans are
\* made only when the direct element is not there (lines 635-637, 648-654).
QuizSteps == <<"name", "status", "grade", "attempts">>
AssignmentSteps(reads) ==
    <<"name", "submit">>
      \o (IF reads.submit = "absent" THEN <<"submit_scan">> ELSE <<>>)
      \o <<"date">>
      \o (IF reads.date = "absent" THEN <<"date_scan">> ELSE <<>>)
      \o <<"grade">>

\* The first step that raises, 0 when none does; a step is reached iff no
\* step before it raised.
FirstFault(reads, steps) ==
    LET bad == {j \in 1..Len(steps) : reads[steps[j]] \in Faults}
    IN  IF bad = {} THEN 0 ELSE CHOOSE j \in bad : \A k \in bad : j <= k
FaultOf(reads, steps) ==
    IF FirstFault(reads, steps) = 0 THEN "none" ELSE reads[steps[FirstFault(reads, steps)]]
Got(reads, steps, f) ==
    \E j \in 1..Len(steps) :
       /\ steps[j] = f
       /\ (FirstFault(reads, steps) = 0 \/ j < FirstFault(reads, steps))

\* Lines 512, 633: the name, or its sentinel.
QuizName(t) == IF t = "" THEN "Unnamed Quiz" ELSE t
AssignmentName(t) == IF t = "" THEN "Unnamed Assignment" ELSE t

\* Lines 515-522: the closed_at of a quiz from its status text.
QuizClosedAt(raw) ==
    CASE raw = "Closed at: Dec 5, 2024 at 11:59 PM" -> "Dec 5, 2024 at 11:59 PM"
      [] raw = ""                                    -> "No Status/Date"
      [] OTHER                                       -> raw

\* Line 525: the grade of a quiz.
QuizGrade(t) == IF t # "" /\ t # "--" THEN t ELSE "Not Graded"

\* Line 527: the attempts of a quiz.
QuizAttempts(t) == IF t = "absent" THEN "Attempts N/A" ELSE t

\* '/' in grade, over the grade texts of the model.
HasSlash(g) == g \in {"8/10"}

\* Lines 529-532: the list a fully extracted quiz is appended to.
QuizBucket(grade) == IF grade # "Not Graded" /\ HasSlash(grade) THEN "with" ELSE "without"

\* An item that is skipped (lines 534-536, 673-675).
Skipped == [bucket |-> "skipped"]

\* Lines 508-543: the extraction of one quiz item.  A field whose assignment
\* was not reached gets its setdefault value in the error path, which appends
\* to quizzes_without_results.
ExtractQuiz(reads) ==
    LET got(f) == Got(reads, QuizSteps, f)
        grade  == IF got("grade") THEN QuizGrade(reads.grade) ELSE "Unknown"
    IN  IF ~ItemRecorded(FaultOf(reads, QuizSteps))
        THEN Skipped
        ELSE [name      |-> IF got("name") THEN QuizName(reads.name)
                            ELSE "Error Processing Quiz",
              closed_at |-> IF got("status") THEN QuizClosedAt(reads.status) ELSE "Unknown",
              grade     |-> grade,
              attempts  |-> IF got("attempts") THEN QuizAttempts(reads.attempts)
                            ELSE "Unknown",
              bucket    |-> IF FirstFault(reads, QuizSteps) = 0
                            THEN QuizBucket(grade) ELSE "without"]

\* Lines 634-645: the submit status: the direct element's text, else the
\* text the scan found, else "Status Unknown".
SubmitStatus(reads) ==
    CASE reads.submit # "absent"    -> reads.submit
      [] reads.submit_scan = "none" -> "Status Unknown"
      [] OTHER                      -> reads.submit_scan

\* Lines 646-660: the raw date: the direct element's text when the element is
\* there, else the text the scan found, else "".
RawDate(reads) ==
    CASE reads.date # "absent"    -> reads.date
      [] reads.date_scan = "none" -> ""
      [] OTHER                    -> reads.date_scan

\* Lines 661-666: the closed_at of an assignment from its raw date.
AssignmentClosedAt(raw) ==
    CASE raw = "Closed at: Dec 5, 2024 at 11:59 PM" -> "Dec 5, 2024 at 11:59 PM"
      [] raw = ""                                    -> "No Deadline Info"
      [] OTHER                                       -> raw

\* Lines 667-669: the grading status of an assignment.
GradingStatus(t) == IF t # "" /\ t # "--" THEN t ELSE "Not Graded Yet"

\* Lines 627-682: the extraction of one assignment item.
ExtractAssignment(reads) ==
    LET steps  == AssignmentSteps(reads)
        got(f) == Got(reads, steps, f)
        scanned(direct, scan) == got(direct) /\ (reads[direct] = "absent" => got(scan))
    IN  IF ~ItemRecorded(FaultOf(reads, steps))
        THEN Skipped
        ELSE [name           |-> IF got("name") THEN AssignmentName(reads.name)
                                 ELSE "Error Processing Assignment",
              submit_status  |-> IF scanned("submit", "submit_scan")
                                 THEN SubmitStatus(reads) ELSE "Unknown",
              closed_at      |-> IF scanned("date", "date_scan")
                                 THEN AssignmentClosedAt(RawDate(reads)) ELSE "Unknown",
              grading_status |-> IF got("grade") THEN GradingStatus(reads.grade)
                                 ELSE "Unknown",
              bucket         |-> "assignments"]

\* What processing one course section can meet:
\*   scroll  the scrollIntoView script of line 473: "ok", "stale", "error";
\*   name    the wait for the course name of lines 477-482: a name, "timeout"
\*           (the default label is kept), "stale", "error";
\*   expand  what expand_course_panel returned (it absorbs its own failures);
\*   wait    the wait for the item elements of lines 496-502: "items",
\*           "timeout" (no items), "stale", "error";
\*   items   for each item located, in page order, what its extraction met:
\*           "none", "stale" or "error" (<<>> unless the wait located items).
\* A step the pass never gets to has one outcome only, so that no two
\* elements of the set describe the same pass.
CourseOutcomes ==
    {o \in [scroll : {"ok", "stale", "error"},
            name   : CourseNames \cup {"timeout", "stale", "error"},
            expand : BOOLEAN,
            wait   : {"items", "timeout", "stale", "error"},
            items  : ItemRuns] :
        /\ (o.scroll # "ok") => (o.name = "timeout")
        /\ (o.scroll # "ok" \/ o.name \in {"stale", "error"}) => ~o.expand
        /\ (~o.expand) => (o.wait = "timeout")
        /\ (o.items # <<>>) <=> (o.wait = "items")}

\* Lines 548-553, 687-692: the except clause of a course section records the
\* course as failed unless it is listed already.
RecordFailure(res, nm) ==
    IF InSeq(nm, res.courses_failed_expansion)
    THEN res
    ELSE [res EXCEPT !.courses_failed_expansion = Append(@, nm)]

\* A faulty variant of lines 487-490 that counts the course as processed too.
ExpansionFailed_Counted(res, nm) ==
    [res EXCEPT !.courses_failed_expansion = Append(@, nm),
                !.courses_processed = @ + 1]

\* Lines 487-490: expand_course_panel returned False; the course is listed as
\* failed (with no look at the list) and the pass ends.
ExpansionFailed(res, nm) ==
    [res EXCEPT !.courses_failed_expansion = Append(@, nm)]

\* Lines 470-553, 589-692: the loop body for the section at 0-based index i.
\* A stale-element error anywhere leaves the section as it is (lines 545-547);
\* an item skipped as stale is counted in total_found and yields no record.
ProcessCourse(res, i, o) ==
    LET dflt == DefaultName(i + 1) IN
    CASE o.scroll = "stale" -> res
      [] o.scroll = "error" -> RecordFailure(res, dflt)
      [] o.name = "stale"   -> res
      [] o.name = "error"   -> RecordFailure(res, dflt)
      [] OTHER ->
         LET nm == IF o.name = "timeout" THEN dflt ELSE o.name
             r1 == [res EXCEPT !.courses_found_on_page = Append(@, nm)]
             r2 == [r1 EXCEPT !.courses_processed = @ + 1]
         IN  CASE ~o.expand -> ExpansionFailed(r1, nm)
               [] o.wait = "stale"   -> r2
               [] o.wait = "error"   -> RecordFailure(r2, nm)
               [] o.wait = "timeout" ->
                    [r2 EXCEPT !.courses_with_no_items = Append(@, nm)]
               [] OTHER ->
                    [r2 EXCEPT !.total_found = @ + FoundIn(o.items),
                               !.records = @ + RecordsOf(o.items)]

\* Lines 470-553, 589-692: the path a pass of the loop body takes, with the
\* name it recorded in courses_found_on_page ("" when it did not get there)
\* and, for a course whose items were located, what each extraction met.
CourseFate(i, o) ==
    LET nm == IF o.name = "timeout" THEN DefaultName(i + 1) ELSE o.name
        early(p) == [path |-> p, name |-> "", items |-> <<>>]
        late(p)  == [path |-> p, name |-> nm, items |-> <<>>]
    IN  CASE o.scroll = "stale"    -> early("stale_before_name")
          [] o.scroll = "error"    -> early("raised_before_name")
          [] o.name = "stale"      -> early("stale_before_name")
          [] o.name = "error"      -> early("raised_before_name")
          [] ~o.expand             -> late("expand_failed")
          [] o.wait = "stale"      -> late("stale_after_count")
          [] o.wait = "error"      -> late("raised_after_count")
          [] o.wait = "timeout"    -> late("no_items")
          [] OTHER -> [path |-> "items", name |-> nm, items |-> o.items]

\* Lines 451-463, 570-582: the except clause around the first wait and
\* find_elements names TimeoutException only.
InitialWait(w) ==
    CASE w = "found"   -> "go_on"
      [] w = "timeout" -> "return_empty"
      [] OTHER         -> "propagate"

\* Lines 441-468, 561-587: start from the empty result, wait for a course
\* section, list the sections.  The page lists k sections, within what is
\* left of the MaxCourses sections the portal shows to the job.
ScrapeEnter ==
    /\ pc = "scrape_enter"
    /\ results' = EmptyResult
    /\ index' = 0
    /\ fates' = <<>>
    /\ \E w \in {"found", "timeout", "error"}, k \in 0..(MaxCourses - sectionsShown) :
          CASE InitialWait(w) = "propagate" ->
                  /\ scrapeOutcome' = "raised"
                  /\ courses' = 0
                  /\ pc' = "scrape_ret"
                  /\ UNCHANGED sectionsShown
            [] InitialWait(w) = "return_empty" \/ k = 0 ->
                  /\ scrapeOutcome' = "returned"
                  /\ courses' = 0
                  /\ pc' = "scrape_ret"
                  /\ UNCHANGED sectionsShown
            [] OTHER ->
                  /\ scrapeOutcome' = "none"
                  /\ courses' = k
                  /\ pc' = "scrape_course"
                  /\ sectionsShown' = sectionsShown + k
    /\ UNCHANGED <<entry, click, stream, loggers, dateVars, checkVars, alertVars, kind, itemReads, item, itemsShown, jobVars, runVars, loginVars,
                   solveVars>>

\* Lines 470-553, 589-692: one pass of the loop over the course sections.
\* The section shows items within what is left of the MaxItems items the
\* portal shows to the job.
ScrapeCourse ==
    /\ pc = "scrape_course"
    /\ index < courses
    /\ \E o \in CourseOutcomes :
          /\ Len(o.items) <= MaxItems - itemsShown
          /\ results' = ProcessCourse(results, index, o)
          /\ fates' = Append(fates, CourseFate(index, o))
          /\ itemsShown' = itemsShown + Len(o.items)
    /\ index' = index + 1
    /\ UNCHANGED <<entry, click, stream, loggers, dateVars, checkVars, alertVars, pc, kind, courses, scrapeOutcome, sectionsShown, itemReads, item,
                   jobVars, runVars, loginVars, solveVars>>

\* Lines 555-556, 694-695: the loop is over; return the result.
ScrapeReturn ==
    /\ pc = "scrape_course"
    /\ index = courses
    /\ scrapeOutcome' = "returned"
    /\ pc' = "scrape_ret"
    /\ UNCHANGED <<entry, click, stream, loggers, dateVars, checkVars, alertVars, kind, courses, index, results, sectionsShown, fates, itemReads,
                   item, itemsShown, jobVars, runVars, loginVars, solveVars>>

\* Lines 508-543, 627-682: one pass of the item loop on the item at hand.
ExtractItem ==
    /\ pc = "item_enter"
    /\ item' = IF kind = "quizzes" THEN ExtractQuiz(itemReads)
               ELSE ExtractAssignment(itemReads)
    /\ pc' = "item_ret"
    /\ UNCHANGED <<entry, click, stream, loggers, dateVars, checkVars, alertVars, kind, courses, index, results, scrapeOutcome, sectionsShown,
                   fates, itemReads, itemsShown, jobVars, runVars, loginVars, solveVars>>

NextItem == ExtractItem

\* What datetime accepts at line 712: timedelta takes at most this many days,
\* and a datetime is at most datetime.max, whose proleptic ordinal this is.
MaxTimedeltaDays == 999999999
MaxOrdinal == 3652059

\* The numbers a relative date can hold: small ones, and ones past each of
\* the two limits.
DayNumbers == {0, 2, 30, 3000000, 999999999, 1000000000}
HourNumbers == {0, 3, 24}

\* Line 701: the strings that stand for no date.
NullStrings == {"", "No Deadline Info", "No Status/Date", "N/A", "Unknown"}

\* What can stand before an absolute date, "none" for nothing; line 720
\* removes the first three.
Labels == {"none", "Closed at:", "Opened at:", "Will be opened at:", "Due:"}

\* Lines 723-729, by their position in the list:
\*   1 '%b %d, %Y at %I:%M %p'   2 '%B %d, %Y at %I:%M %p'
\*   3 '%Y-%m-%d %H:%M:%S'       4 '%m/%d/%Y %I:%M %p'
\*   5 '%a, %b %d, %Y %I:%M %p'
Formats == 1..5

\* The dates of the absolute strings, as proleptic ordinal and minute of the
\* day; single tells that the day of the month has one digit.
\*   Dec 5, 2024 11:59 PM; Dec 31, 2024 9:00 AM; then, around Nov 3, 2026
\*   12:00 PM: that moment, Nov 5 11:59 PM, Nov 6 11:59 PM, Nov 7 11:59 AM,
\*   Nov 7 11:59 PM.
Dates ==
    {[day |-> 739225, minute |-> 1439, single |-> TRUE],
     [day |-> 739251, minute |-> 540,  single |-> FALSE],
     [day |-> 739923, minute |-> 720,  single |-> TRUE],
     [day |-> 739925, minute |-> 1439, single |-> TRUE],
     [day |-> 739926, minute |-> 1439, single |-> TRUE],
     [day |-> 739927, minute |-> 719,  single |-> TRUE],
     [day |-> 739927, minute |-> 1439, single |-> TRUE]}

\* A string that is no date: form is the string itself for the NullStrings,
\* "days_only" for 'Will be closed after: 2 days', which line 707 does not
\* match, "garbage" for any other text.
Plain(f) ==
    [form |-> f, days |-> 0, hours |-> 0, label |-> "none", fmt |-> 0,
     padded |-> FALSE, day |-> 0, minute |-> 0]

\* 'Will be closed after: <d> days <h> hours'.
Relative(d, h) == [Plain("relative") EXCEPT !.days = d, !.hours = h]

\* The date t written in format f after label l, its day of the month with
\* two digits iff p.
Absolute(l, f, t, p) ==
    [Plain("absolute") EXCEPT !.label = l, !.fmt = f, !.padded = p,
                              !.day = t.day, !.minute = t.minute]

\* The strings parse_date is called with.
DateStrings ==
    {Plain(f) : f \in NullStrings \cup {"days_only", "garbage"}}
      \cup {Relative(d, h) : d \in DayNumbers, h \in HourNumbers}
      \cup UNION {{Absolute(l, f, t, p) : l \in Labels, f \in Formats,
                                          p \in IF t.single THEN BOOLEAN ELSE {TRUE}} :
                  t \in Dates}

\* What datetime.now() can give: Nov 3, 2026, at three minutes of the day.
Nows == [day : {739923}, minute : {0, 720, 1439}]

\* Lines 701-702.
ReturnsNoneAtOnce_EmptyOnly(s) == s.form = ""
ReturnsNoneAtOnce(s) == s.form \in NullStrings

\* Line 720: a leading label is removed.
StripLabel_Kept(s) == s
StripLabel(s) ==
    IF s.label \in {"Closed at:", "Opened at:", "Will be opened at:"}
    THEN [s EXCEPT !.label = "none"]
    ELSE s

\* Line 721: a one-digit day after a three-letter word and before a comma
\* gets a leading zero; that is the day of formats 1 and 5.
PadDay(s) == IF s.fmt \in {1, 5} THEN [s EXCEPT !.padded = TRUE] ELSE s

\* Line 733: strptime with format f reads the string iff the string is
\* written in that format, with nothing before it; %d takes one digit or two.
Parses(f, s) == s.form = "absolute" /\ s.label = "none" /\ s.fmt = f

\* Lines 731-737: the first format of the list that parses, 0 when none does.
FirstFormat(s) ==
    IF \E f \in Formats : Parses(f, s)
    THEN CHOOSE f \in Formats : Parses(f, s) /\ \A g \in Formats : Parses(g, s) => f <= g
    ELSE 0

\* What a call of parse_date comes to: kind is "time" (a datetime of that day
\* and minute), "null" (None) or "raised"; warned tells that it logged a
\* warning; cleaned is the string as far as the call has rewritten it.
Outcome(k, d, m, w, c) ==
    [kind |-> k, day |-> d, minute |-> m, warned |-> w, cleaned |-> c]

\* Lines 699-740.  The relative branch catches ValueError and IndexError
\* only (line 715); timedelta and the addition raise OverflowError.
parse_date(s, n) ==
    IF ReturnsNoneAtOnce(s)
    THEN Outcome("null", 0, 0, FALSE, s)
    ELSE IF s.form = "relative"
    THEN IF s.days + (s.hours \div 24) > MaxTimedeltaDays
         THEN Outcome("raised", 0, 0, FALSE, s)
         ELSE IF n.day + s.days + ((n.minute + 60 * s.hours) \div 1440) > MaxOrdinal
         THEN Outcome("raised", 0, 0, FALSE, s)
         ELSE Outcome("time", n.day + s.days + ((n.minute + 60 * s.hours) \div 1440),
                      (n.minute + 60 * s.hours) % 1440, FALSE, s)
    ELSE LET cleaned == PadDay(StripLabel(s))
         IN  IF FirstFormat(cleaned) # 0
             THEN Outcome("time", cleaned.day, cleaned.minute, FALSE, cleaned)
             ELSE Outcome("null", 0, 0, TRUE, cleaned)

\* One call of parse_date.
ParseDate ==
    /\ pc = "parse_enter"
    /\ deadline' = parse_date(date_str, now)
    /\ pc' = "parse_ret"
    /\ UNCHANGED <<entry, click, stream, loggers, date_str, now, checkVars, alertVars, jobVars, runVars, loginVars,
                   solveVars, scrapeVars>>

NextParse == ParseDate

---------------------------------------------------------------------------
(* check_upcoming_deadlines (lines 743-781) *)

DEADLINE_THRESHOLD_DAYS == 3
MaxTasks == 3         \* records in the data check_upcoming_deadlines is given

\* The closed_at of the records: a date long past, the moment of the
\* evaluation, dates two to four days ahead, a relative date of no span, no
\* date, and a relative date past what datetime holds.
TaskDates ==
    {Absolute("Closed at:", 1, t, FALSE) : t \in {u \in Dates : u.single}}
      \cup {Relative(0, 0), Plain("No Deadline Info"), Relative(3000000, 0)}

\* The record lists of lines 749-751, cut out of one run of records: the
\* first a are assignments, the next b - a quizzes with results, the rest
\* quizzes without.
Record(type, closed) == [type |-> type, closed_at |-> closed]
DataOf(run, a, b) ==
    [assignments |-> [j \in 1..a |-> Record("Assignment", run[j])],
     quizzes_with_results    |-> [j \in 1..(b - a) |-> Record("Quiz", run[a + j])],
     quizzes_without_results |-> [j \in 1..(Len(run) - b) |-> Record("Quiz", run[b + j])]]

\* Lines 749-751.
AllTasks(d) == d.assignments \o d.quizzes_with_results \o d.quizzes_without_results

\* The moment m minutes after n.
Advance(n, m) ==
    [day |-> n.day + ((n.minute + m) \div 1440), minute |-> (n.minute + m) % 1440]

\* Line 766: deadline > now.
After_OrAt(a, b) == a.day > b.day \/ (a.day = b.day /\ a.minute >= b.minute)
After(a, b) == a.day > b.day \/ (a.day = b.day /\ a.minute > b.minute)

\* Lines 767-768: (deadline - now).days, the whole days of the difference.
DaysLeft(due, n) == (due.day - n.day) - (IF due.minute < n.minute THEN 1 ELSE 0)

\* Line 769.
WithinThreshold_Below(d, thr) == 0 <= d /\ d < thr
WithinThreshold(d, thr) == 0 <= d /\ d <= thr

\* Line 763 for the record at position j: parse_date reads the clock itself,
\* lag minutes after line 746 did.
ParsedAt(all, j, n, lg) == parse_date(all[j].closed_at, Advance(n, lg))

\* Lines 758-761: the record has a date string at all.
HasDate(task) == task.closed_at.form # ""

\* Lines 765-769: the record at position j is appended.
Appended(all, j, thr, n, lg) ==
    /\ HasDate(all[j])
    /\ ParsedAt(all, j, n, lg).kind = "time"
    /\ After(ParsedAt(all, j, n, lg), n)
    /\ WithinThreshold(DaysLeft(ParsedAt(all, j, n, lg), n), thr)

\* Lines 770-777.
Deadline(all, j, n, lg) ==
    [task         |-> j,
     type         |-> all[j].type,
     due_date_str |-> all[j].closed_at,
     due_date_obj |-> [day    |-> ParsedAt(all, j, n, lg).day,
                       minute |-> ParsedAt(all, j, n, lg).minute],
     days_left    |-> DaysLeft(ParsedAt(all, j, n, lg), n)]

\* Lines 757-777: the loop over the records from position j on.
RECURSIVE Collect(_, _, _, _, _)
Collect(all, j, thr, n, lg) ==
    IF j > Len(all) THEN <<>>
    ELSE (IF Appended(all, j, thr, n, lg) THEN <<Deadline(all, j, n, lg)>> ELSE <<>>)
            \o Collect(all, j + 1, thr, n, lg)

\* Line 779: list.sort by due_date_obj, which keeps the order of equal keys.
\* InsertByDue puts x after every element that is not later than it.
RECURSIVE InsertByDue(_, _)
InsertByDue(sorted, x) ==
    IF sorted = <<>> THEN <<x>>
    ELSE IF After(Head(sorted).due_date_obj, x.due_date_obj)
         THEN <<x>> \o sorted
         ELSE <<Head(sorted)>> \o InsertByDue(Tail(sorted), x)
SortByDue_Unsorted(seq) == seq
RECURSIVE SortByDue(_)
SortByDue(seq) ==
    IF seq = <<>> THEN <<>>
    ELSE InsertByDue(SortByDue(SubSeq(seq, 1, Len(seq) - 1)), seq[Len(seq)])

\* Line 763 raises for some record the loop reaches.
CheckRaises(all, n, lg) ==
    \E j \in 1..Len(all) : HasDate(all[j]) /\ ParsedAt(all, j, n, lg).kind = "raised"

\* One call of check_upcoming_deadlines.
CheckDeadlines ==
    /\ pc = "check_enter"
    /\ IF CheckRaises(AllTasks(data), now, lag)
       THEN /\ checkOutcome' = "raised"
            /\ UNCHANGED upcoming
       ELSE /\ checkOutcome' = "returned"
            /\ upcoming' = SortByDue(Collect(AllTasks(data), 1, days_threshold, now, lag))
    /\ pc' = "check_ret"
    /\ UNCHANGED <<entry, click, stream, loggers, dateVars, data, days_threshold, lag, alertVars, jobVars, runVars,
                   loginVars, solveVars, scrapeVars>>

NextCheck == CheckDeadlines

---------------------------------------------------------------------------
(* send_deadline_alerts (lines 783-854) *)

max_embeds == 10
MaxAlertTasks == 23   \* deadlines send_deadline_alerts is given

\* Line 785: the URL is there and has the shape of a Discord webhook.
ValidWebhook_NotMissing(h) == h # "none"
ValidWebhook(h) == h = "valid"

\* Line 790: the slices of m deadlines, the last one shorter.
Chunks_Whole(seq, m) == IF seq = <<>> THEN <<>> ELSE <<seq>>
Chunks(seq, m) ==
    [i \in 1..((Len(seq) + m - 1) \div m) |->
        SubSeq(seq, (i - 1) * m + 1, IF i * m < Len(seq) THEN i * m ELSE Len(seq))]

\* Line 792: there is no batch.
NoChunks_Never(cs) == FALSE
NoChunks(cs) == cs = <<>>

\* What requests.post with raise_for_status comes to: the message is
\* delivered, the status is an HTTP error, the request fails (both
\* RequestException), or something else is raised.
PostOutcomes == {"ok", "http_error", "request_error", "other_error"}

\* Lines 806 and 851-854: the handlers around each POST.  The 'all clear'
\* POST is guarded by `except RequestException` only, a batch POST by
\* `except Exception` as well.
Absorbed(kindOfPost, o) == kindOfPost = "batch" \/ o # "other_error"

\* A request as the webhook gets it: its kind, the deadlines of its embeds,
\* the part numbers of its content text.
Post(k, embeds, part, of) == [kind |-> k, embeds |-> embeds, part |-> part, of |-> of]

\* Lines 785-792.
AlertsEnter ==
    /\ pc = "alerts_enter"
    /\ IF ~ValidWebhook(webhook_url)
       THEN /\ errorLogged' = TRUE
            /\ alertOutcome' = "returned"
            /\ pc' = "alerts_ret"
            /\ UNCHANGED chunk
       ELSE /\ UNCHANGED <<errorLogged, alertOutcome>>
            /\ IF NoChunks(Chunks(upcoming_tasks, max_embeds))
               THEN pc' = "alerts_all_clear" /\ UNCHANGED chunk
               ELSE pc' = "alerts_chunk" /\ chunk' = 1
    /\ UNCHANGED <<entry, click, stream, loggers, dateVars, checkVars, webhook_url, upcoming_tasks, posts,
                   jobVars, runVars, loginVars, solveVars, scrapeVars>>

\* Lines 793-808: the 'all clear' message.
AlertsAllClear ==
    /\ pc = "alerts_all_clear"
    /\ posts' = Append(posts, Post("all_clear", <<>>, 0, 0))
    /\ \E o \in PostOutcomes :
          alertOutcome' = IF Absorbed("all_clear", o) THEN "returned" ELSE "raised"
    /\ pc' = "alerts_ret"
    /\ UNCHANGED <<entry, click, stream, loggers, dateVars, checkVars, webhook_url, upcoming_tasks, chunk,
                   errorLogged, jobVars, runVars, loginVars, solveVars, scrapeVars>>

\* Lines 810-854: one pass of the loop over the batches, or its end.
AlertsChunk ==
    /\ pc = "alerts_chunk"
    /\ LET cs == Chunks(upcoming_tasks, max_embeds)
       IN  IF chunk > Len(cs)
           THEN /\ alertOutcome' = "returned"
                /\ pc' = "alerts_ret"
                /\ UNCHANGED <<posts, chunk>>
           ELSE /\ posts' = Append(posts, Post("batch", cs[chunk], chunk, Len(cs)))
                /\ \E o \in PostOutcomes :
                      IF Absorbed("batch", o)
                      THEN /\ chunk' = chunk + 1
                           /\ pc' = "alerts_chunk"
                           /\ UNCHANGED alertOutcome
                      ELSE /\ alertOutcome' = "raised"
                           /\ pc' = "alerts_ret"
                           /\ UNCHANGED chunk
    /\ UNCHANGED <<entry, click, stream, loggers, dateVars, checkVars, webhook_url, upcoming_tasks, errorLogged,
                   jobVars, runVars, loginVars, solveVars, scrapeVars>>

NextAlerts == AlertsEnter \/ AlertsAllClear \/ AlertsChunk

---------------------------------------------------------------------------
(* click_element_robustly (lines 109-144) *)

\* What the steps of a call come to:
\*   element   "null" for None, else "present";
\*   native    the wait for the element to be clickable and its click() (lines
\*             115-116): "ok", or the exception by the clause that takes it;
\*   tag_name  reading element.tag_name for the log line of lines 119 and 129;
\*   script    the two execute_script calls of lines 121-123 and 131-133.
ClickCalls ==
    [element  : {"null", "present"},
     native   : {"ok", "intercepted", "stale", "timeout", "other"},
     tag_name : {"ok", "raises"},
     script   : {"ok", "scroll_fails", "click_fails"},
     tried    : {<<>>},
     outcome  : {"none"}]

\* Lines 118 and 128: the clauses that go on to the script-driven click.
FallsBackToScript(native) == native \in {"intercepted", "timeout"}

\* Lines 111-119, 126-129, 141-143: the guard, the native click and the
\* clause its exception lands in.
ClickNative ==
    /\ pc = "click_enter"
    /\ IF click.element = "null"
       THEN /\ click' = [click EXCEPT !.outcome = "false"]
            /\ pc' = "click_ret"
       ELSE IF click.native = "ok"
       THEN /\ click' = [click EXCEPT !.tried = <<"native">>, !.outcome = "true"]
            /\ pc' = "click_ret"
       ELSE IF ~FallsBackToScript(click.native)
       THEN /\ click' = [click EXCEPT !.tried = <<"native">>, !.outcome = "false"]
            /\ pc' = "click_ret"
       ELSE IF click.tag_name = "raises"
       THEN /\ click' = [click EXCEPT !.tried = <<"native">>, !.outcome = "raised"]
            /\ pc' = "click_ret"
       ELSE /\ click' = [click EXCEPT !.tried = <<"native">>]
            /\ pc' = "click_script"
    /\ UNCHANGED <<entry, stream, loggers, jobVars, runVars, loginVars, solveVars,
                   scrapeVars, dateVars, checkVars, alertVars>>

\* Lines 120-125, 130-137: scroll into view and click by script.
ClickScript ==
    /\ pc = "click_script"
    /\ click' = [click EXCEPT !.tried = Append(@, "script"),
                              !.outcome = IF click.script = "ok" THEN "true" ELSE "false"]
    /\ pc' = "click_ret"
    /\ UNCHANGED <<entry, stream, loggers, jobVars, runVars, loginVars, solveVars,
                   scrapeVars, dateVars, checkVars, alertVars>>

NextClick == ClickNative \/ ClickScript

---------------------------------------------------------------------------
(* The module logger of dulms_public.py (line 49) under two runs of
   run_dulms_scraper, each on its own worker thread with its own log queue
   (main.py lines 124-127) *)

MaxLogs == 2          \* log records one run emits

Runs == {"A", "B"}

\* Line 975: the handlers of the module logger once run r has removed its own;
\* the finally clause is passed on either way out of the try.
HandlersAfter_ReturnOnly(hs, r, path) == IF path = "returned" THEN hs \ {r} ELSE hs
HandlersAfter(hs, r, path) == hs \ {r}

\* Lines 901-907: run r makes a QueueHandler for its queue and adds it to the
\* module logger.
LoggerRunStart(r) ==
    /\ loggers.at[r] = "idle"
    /\ loggers' = [loggers EXCEPT !.handlers = @ \cup {r}, !.at[r] = "try"]

\* Any logger call of run r, lines 912-973: Logger.callHandlers hands the
\* record to every handler of the logger, and each QueueHandler puts it on
\* its queue.  A record is known by the run that emitted it.
LoggerEmit(r) ==
    /\ loggers.at[r] \in {"try", "finally"}
    /\ loggers.emitted[r] < MaxLogs
    /\ loggers' = [loggers EXCEPT
                      !.emitted[r] = @ + 1,
                      !.queue = [q \in Runs |->
                                    IF q \in loggers.handlers
                                    THEN Append(loggers.queue[q], r)
                                    ELSE loggers.queue[q]]]

\* Lines 956 and 958-963: run r leaves the try by return or by raise.
LoggerRunLeaveTry(r) ==
    /\ loggers.at[r] = "try"
    /\ \E path \in {"returned", "raised"} :
          loggers' = [loggers EXCEPT !.at[r] = "finally", !.path[r] = path]

\* Lines 965-975: the end of the finally clause removes run r's handler.
LoggerRunFinish(r) ==
    /\ loggers.at[r] = "finally"
    /\ loggers' = [loggers EXCEPT
                      !.handlers = HandlersAfter(loggers.handlers, r, loggers.path[r]),
                      !.at[r] = "done"]

LoggerStep ==
    /\ entry = "loggers"
    /\ \E r \in Runs :
          LoggerRunStart(r) \/ LoggerEmit(r) \/ LoggerRunLeaveTry(r) \/ LoggerRunFinish(r)
    /\ UNCHANGED <<entry, pc, click, stream, jobVars, runVars, loginVars, solveVars,
                   scrapeVars, dateVars, checkVars, alertVars>>

NextLoggers == LoggerStep

NextScrape == ScrapeEnter \/ ScrapeCourse \/ ScrapeReturn

---------------------------------------------------------------------------
(* run_dulms_scraper *)

\* The listing pages visited assignments first.
NavOrder_Swapped == <<"assignments", "quizzes">>

\* Lines 927, 935: the listing pages in the order the run visits them.
NavOrder == <<"quizzes", "assignments">>

\* The page the navigation at position p goes to, and where the run goes on
\* once content type k is dealt with.
PageAt(p) == IF p = "run_nav_1" THEN NavOrder[1] ELSE NavOrder[2]
AfterPage(k) == IF k = NavOrder[1] THEN "run_nav_2" ELSE "run_evaluate"

\* A navigate_to_page that reports success whatever happened.
NavigateResult_Always(r) == TRUE

\* Lines 363-382, navigate_to_page: True when the page loaded and the key
\* element showed, False on a timeout or any other exception.
NavigateResult(r) == r = "ok"

\* A finally clause that never quits the browser.
ShouldQuit_Never(d) == FALSE

\* Line 966: `if driver:`.
ShouldQuit(d) == d # "none"

\* Number of records of a dataset.
TotalRecords(d) == d.quizzes.records + d.assignments.records

\* Lines 783-854, send_deadline_alerts: the POSTs it makes for n deadlines:
\* none without a Discord-shaped URL, one "all clear" for n = 0, else one per
\* chunk of 10.
AlertPosts(n, hook) ==
    CASE hook # "valid" -> 0
      [] n = 0          -> 1
      [] OTHER          -> (n + 9) \div 10

PhaseRank(ph) ==
    CASE ph = "idle" -> 0
      [] ph = "init" -> 1
      [] ph = "login" -> 2
      [] ph = "quizzes" -> 3
      [] ph = "assignments" -> 4
      [] ph = "evaluate" -> 5
      [] ph = "notify" -> 6
      [] ph = "report" -> 7
      [] ph = "finally" -> 8
      [] OTHER -> 9

\* Lines 900-924: register the log handler, start from the empty dataset,
\* open the browser (initialize_driver raises when it cannot) and call login.
RunEnter ==
    /\ pc = "run_enter"
    /\ scraped_data' = [quizzes |-> EmptyResult, assignments |-> EmptyResult]
    /\ \E opened \in BOOLEAN :
          IF opened
          THEN /\ driver' = "open"
               /\ phase' = "login"
               /\ max_retries' = MAX_LOGIN_RETRIES
               /\ pc' = "login_enter"
               /\ UNCHANGED runError
          ELSE /\ driver' = "none"
               /\ phase' = "init"
               /\ runError' = "DriverInit"
               /\ pc' = "run_except"
               /\ UNCHANGED max_retries
    /\ UNCHANGED <<entry, click, stream, loggers, dateVars, checkVars, alertVars, jobVars, quitCalls, runOutcome, navigated, scraped, navFailed,
                   evaluated, alertPosts, dateRaised, discord_webhook, upcoming_deadlines,
                   attempt, loginOutcome, loginError, loginGets, retryFails, att, exc,
                   url, pageMsg, solveVars, scrapeVars>>

\* Line 924: login came back; its exception is the run's.
RunAfterLogin ==
    /\ pc = "login_ret"
    /\ entry = "job"
    /\ IF loginOutcome = "raised"
       THEN runError' = loginError /\ pc' = "run_except"
       ELSE pc' = "run_nav_1" /\ UNCHANGED runError
    /\ attempt' = 0 /\ loginGets' = 0 /\ retryFails' = 0 /\ att' = NoFlags /\ exc' = "none"
    /\ UNCHANGED <<entry, click, stream, loggers, dateVars, checkVars, alertVars, jobVars, driver, quitCalls, scraped_data, phase, runOutcome,
                   navigated, scraped, navFailed, evaluated, alertPosts, dateRaised,
                   discord_webhook, upcoming_deadlines, max_retries, loginOutcome,
                   loginError, url, pageMsg, solveVars, scrapeVars>>

\* Lines 927-940 with navigate_to_page (363-382): go to a listing page; call
\* its scrape function when the navigation succeeded, else log and go on.
RunNavigate ==
    /\ pc \in {"run_nav_1", "run_nav_2"}
    /\ LET k == PageAt(pc) IN
       /\ phase' = k
       /\ navigated' = navigated \cup {k}
       /\ \E r \in {"ok", "timeout", "error"} :
             /\ url' = IF r = "ok" THEN k ELSE "elsewhere"
             /\ navFailed' = IF r = "ok" THEN navFailed ELSE navFailed \cup {k}
             /\ IF NavigateResult(r)
                THEN /\ kind' = k
                     /\ scraped' = scraped \cup {k}
                     /\ pc' = "scrape_enter"
                ELSE /\ pc' = AfterPage(k)
                     /\ UNCHANGED <<kind, scraped>>
    /\ pageMsg' = "none"
    /\ UNCHANGED <<entry, click, stream, loggers, dateVars, checkVars, alertVars, jobVars, driver, quitCalls, scraped_data, runOutcome, runError,
                   evaluated, alertPosts, dateRaised, discord_webhook, upcoming_deadlines,
                   max_retries, attempt, loginOutcome, loginError, loginGets, retryFails,
                   att, exc, solveVars, courses, index, results, scrapeOutcome,
                   sectionsShown, fates, itemReads, item, itemsShown>>

\* A faulty variant of lines 928, 936 that stores the result under both keys.
StoreResult_Both(dataset, k, res) == [quizzes |-> res, assignments |-> res]

\* Lines 928, 936: the result of a scrape function is stored under its key.
StoreResult(dataset, k, res) == [dataset EXCEPT ![k] = res]

\* Lines 928, 936: the scrape function came back; its result replaces the
\* dataset's entry, its exception is the run's.
RunAfterScrape ==
    /\ pc = "scrape_ret"
    /\ IF scrapeOutcome = "raised"
       THEN /\ runError' = "ScrapeError"
            /\ pc' = "run_except"
            /\ UNCHANGED scraped_data
       ELSE /\ scraped_data' = StoreResult(scraped_data, kind, results)
            /\ pc' = AfterPage(kind)
            /\ UNCHANGED runError
    /\ kind' = "none" /\ courses' = 0 /\ index' = 0
    /\ results' = EmptyResult /\ scrapeOutcome' = "none" /\ fates' = <<>>
    /\ UNCHANGED <<entry, click, stream, loggers, dateVars, checkVars, alertVars, jobVars, driver, quitCalls, phase, runOutcome, navigated,
                   scraped, navFailed, evaluated, alertPosts, dateRaised, discord_webhook,
                   upcoming_deadlines, loginVars, solveVars, sectionsShown, itemReads, item,
                   itemsShown>>

\* Lines 946-950 with check_upcoming_deadlines (743-781): without a webhook
\* the alerts are skipped; else the deadlines are evaluated.  parse_date
\* catches ValueError and IndexError only (line 715), so a record whose
\* relative date overflows timedelta makes the evaluation raise.
RunEvaluate ==
    /\ pc = "run_evaluate"
    /\ \E hook \in {"none", "invalid", "valid"}, overflow \in BOOLEAN,
          n \in 0..TotalRecords(scraped_data) :
          /\ discord_webhook' = hook
          /\ IF hook = "none"
             THEN /\ pc' = "run_report"
                  /\ UNCHANGED <<phase, evaluated, dateRaised, runError, upcoming_deadlines>>
             ELSE /\ phase' = "evaluate"
                  /\ evaluated' = TRUE
                  /\ IF overflow /\ TotalRecords(scraped_data) > 0
                     THEN /\ dateRaised' = TRUE
                          /\ runError' = "OverflowError"
                          /\ pc' = "run_except"
                          /\ UNCHANGED upcoming_deadlines
                     ELSE /\ upcoming_deadlines' = n
                          /\ pc' = "run_notify"
                          /\ UNCHANGED <<dateRaised, runError>>
    /\ UNCHANGED <<entry, click, stream, loggers, dateVars, checkVars, alertVars, jobVars, driver, quitCalls, scraped_data, runOutcome, navigated,
                   scraped, navFailed, alertPosts, loginVars, solveVars, scrapeVars>>

\* Line 948 with send_deadline_alerts (783-854): the POSTs are made; a failed
\* delivery is logged and absorbed, but for what the handler of the 'all
\* clear' POST (line 806) does not catch: that is the run's exception.
RunNotify ==
    /\ pc = "run_notify"
    /\ phase' = "notify"
    /\ alertPosts' = alertPosts + AlertPosts(upcoming_deadlines, discord_webhook)
    /\ \E o \in PostOutcomes :
          IF /\ ValidWebhook(discord_webhook)
             /\ upcoming_deadlines = 0
             /\ ~Absorbed("all_clear", o)
          THEN /\ runError' = "PostError"
               /\ pc' = "run_except"
          ELSE /\ pc' = "run_report"
               /\ UNCHANGED runError
    /\ UNCHANGED <<entry, click, stream, loggers, dateVars, checkVars, alertVars, jobVars, driver, quitCalls,
                   scraped_data, runOutcome,
                   navigated, scraped, navFailed, evaluated, dateRaised, discord_webhook,
                   upcoming_deadlines, loginVars, solveVars, scrapeVars>>

\* Lines 953-956 with generate_data_quality_report (857-890): it parses every
\* record's date again, so it raises where the evaluation would have.
RunReport ==
    /\ pc = "run_report"
    /\ phase' = "report"
    /\ \E overflow \in BOOLEAN :
          IF overflow /\ ~evaluated /\ TotalRecords(scraped_data) > 0
          THEN /\ dateRaised' = TRUE
               /\ runError' = "OverflowError"
               /\ pc' = "run_except"
          ELSE /\ pc' = "run_finally"
               /\ UNCHANGED <<dateRaised, runError>>
    /\ UNCHANGED <<entry, click, stream, loggers, dateVars, checkVars, alertVars, jobVars, driver, quitCalls, scraped_data, runOutcome, navigated,
                   scraped, navFailed, evaluated, alertPosts, discord_webhook,
                   upcoming_deadlines, loginVars, solveVars, scrapeVars>>

\* Lines 958-963: log the error and re-raise it.
RunExcept ==
    /\ pc = "run_except"
    /\ pc' = "run_finally"
    /\ UNCHANGED <<entry, click, stream, loggers, dateVars, checkVars, alertVars, jobVars, runVars, loginVars, solveVars, scrapeVars>>

\* Lines 965-975: quit the browser if there is one (a failing quit is logged
\* and absorbed), remove the log handler; then the run returns the dataset or
\* raises the pending error.
RunFinally ==
    /\ pc = "run_finally"
    /\ phase' = "finally"
    /\ IF ShouldQuit(driver)
       THEN driver' = "closed" /\ quitCalls' = quitCalls + 1
       ELSE UNCHANGED <<driver, quitCalls>>
    /\ runOutcome' = IF runError = "none" THEN "returned" ELSE "raised"
    /\ pc' = "run_ret"
    /\ UNCHANGED <<entry, click, stream, loggers, dateVars, checkVars, alertVars, jobVars, scraped_data, runError, navigated, scraped, navFailed,
                   evaluated, alertPosts, dateRaised, discord_webhook, upcoming_deadlines,
                   loginVars, solveVars, scrapeVars>>

NextRun ==
    \/ RunEnter \/ RunAfterLogin \/ RunNavigate \/ RunAfterScrape \/ RunEvaluate
    \/ RunNotify \/ RunReport \/ RunExcept \/ RunFinally

---------------------------------------------------------------------------
(* main.py: run_scraper_task_wrapper and the stream's cleanup *)

\* A wrapper that records every job as completed.
WrapperStatus_Completed(outcome) == "completed"

\* Line 40: task_results without an entry for the job.
NoResult == [type |-> "absent", data |-> "none", text |-> "none"]

\* Lines 89, 95: the status the wrapper records for the run's outcome.
WrapperStatus(outcome) == IF outcome = "returned" THEN "completed" ELSE "error"

\* Lines 88, 97: the result the wrapper stores: the dataset, or a message
\* holding the error's text.
WrapperResult(outcome, dataset, err) ==
    IF outcome = "returned"
    THEN [type |-> "data", data |-> dataset, text |-> "none"]
    ELSE [type |-> "message", data |-> "none", text |-> err]

\* Lines 68-77: without the job's queue the wrapper records the error and
\* returns; else it marks the job running and calls run_dulms_scraper.
WrapperEnter ==
    /\ pc = "wrapper_enter"
    /\ IF ~task_queues
       THEN /\ task_statuses' = "error"
            /\ task_results' = [type |-> "message", data |-> "none", text |-> "LogQueueMissing"]
            /\ pc' = "wrapper_done"
       ELSE /\ task_statuses' = "running"
            /\ pc' = "run_enter"
            /\ UNCHANGED task_results
    /\ UNCHANGED <<entry, click, stream, loggers, dateVars, checkVars, alertVars, task_queues, log_queue, streamEnded,
                   runVars, loginVars, solveVars, scrapeVars>>

\* Lines 88 and 95: the first write after the run: the result when it
\* returned, the status when it raised.  The run is over: its dataset lives
\* on in what the wrapper stored only, its other locals are gone.
WrapperFirstWrite ==
    /\ pc = "run_ret"
    /\ IF runOutcome = "returned"
       THEN /\ task_results' = WrapperResult(runOutcome, scraped_data, runError)
            /\ UNCHANGED task_statuses
       ELSE /\ task_statuses' = WrapperStatus(runOutcome)
            /\ UNCHANGED task_results
    /\ phase' = "done"
    /\ pc' = "wrapper_second"
    /\ scraped_data' = [quizzes |-> EmptyResult, assignments |-> EmptyResult]
    /\ discord_webhook' = "unread"
    /\ upcoming_deadlines' = 0
    /\ sectionsShown' = 0
    /\ itemsShown' = 0
    /\ UNCHANGED <<entry, click, stream, loggers, dateVars, checkVars, alertVars, task_queues, log_queue, streamEnded, driver, quitCalls,
                   runOutcome, runError, navigated, scraped, navFailed,
                   evaluated, alertPosts, dateRaised, loginVars, solveVars,
                   kind, courses, index, results, scrapeOutcome, fates, itemReads, item>>

\* Lines 89 and 97: the second write: the status when the run returned, the
\* error message when it raised.
WrapperSecondWrite ==
    /\ pc = "wrapper_second"
    /\ IF runOutcome = "returned"
       THEN /\ task_statuses' = WrapperStatus(runOutcome)
            /\ UNCHANGED task_results
       ELSE /\ task_results' = WrapperResult(runOutcome, scraped_data, runError)
            /\ UNCHANGED task_statuses
    /\ pc' = "wrapper_finally"
    /\ UNCHANGED <<entry, click, stream, loggers, dateVars, checkVars, alertVars, task_queues, log_queue, streamEnded,
                   runVars, loginVars, solveVars, scrapeVars>>

\* Lines 100-105: put the status line (the status as the dictionary holds it
\* now, "unknown" without an entry) and the final message on the queue.
WrapperFinally ==
    /\ pc = "wrapper_finally"
    /\ log_queue' = log_queue \o
          << IF task_statuses = "absent" THEN "unknown" ELSE task_statuses,
             IF runOutcome = "returned" THEN "completed successfully" ELSE runError >>
    /\ pc' = "wrapper_done"
    /\ UNCHANGED <<entry, click, stream, loggers, dateVars, checkVars, alertVars, task_queues, task_statuses, task_results, streamEnded,
                   runVars, loginVars, solveVars, scrapeVars>>

\* Lines 146-199 of stream_logs: the stream of the job's client ends (the
\* client may disconnect at any time) and its finally clause deletes the
\* job's entries from the three dictionaries.
StreamCleanup ==
    /\ entry = "job"
    /\ ~streamEnded
    /\ task_queues
    /\ streamEnded' = TRUE
    /\ task_queues' = FALSE
    /\ task_results' = NoResult
    /\ task_statuses' = "absent"
    /\ UNCHANGED <<entry, click, stream, loggers, dateVars, checkVars, alertVars, pc, log_queue, runVars, loginVars, solveVars, scrapeVars>>

NextJob == WrapperEnter \/ WrapperFirstWrite \/ WrapperSecondWrite \/ WrapperFinally
           \/ StreamCleanup

---------------------------------------------------------------------------
(* stream_logs, main.py lines 131-202: the generator that serves the job's
   client, step by step, next to the wrapper on its worker thread.  The run
   itself is reduced to the records it logs and to its outcome. *)

\* The datasets a run can return, told apart by one counter.
StreamDatasets ==
    { [quizzes |-> [EmptyResult EXCEPT !.total_found = n, !.records = n],
       assignments |-> EmptyResult] : n \in {0, 1} }

\* Line 174 and line 180: what the generator reads from task_results, with
\* the default of each `get` when the job has no entry.
ResultRead(results_entry) ==
    IF results_entry.type = "absent"
    THEN [type |-> "empty", data |-> "none", text |-> "none"]
    ELSE results_entry

MessageRead(results_entry) ==
    IF results_entry.type = "absent" THEN "Unknown error" ELSE results_entry.text

\* dulms_public.py lines 900-907 and any logger call of the run: a record is
\* put on the job's queue.
StreamRunLog ==
    /\ entry = "stream"
    /\ pc = "run_enter"
    /\ stream.logged < MaxLogs
    /\ log_queue' = Append(log_queue, ToString(stream.logged + 1))
    /\ stream' = [stream EXCEPT !.logged = @ + 1]
    /\ UNCHANGED <<entry, pc, click, loggers, task_queues, task_statuses, task_results,
                   streamEnded, runVars, loginVars, solveVars, scrapeVars, dateVars,
                   checkVars, alertVars>>

\* dulms_public.py lines 956 and 958-963: the run returns its dataset or
\* raises.
StreamRunEnd ==
    /\ entry = "stream"
    /\ pc = "run_enter"
    /\ \/ \E d \in StreamDatasets :
             /\ runOutcome' = "returned"
             /\ runError' = "none"
             /\ scraped_data' = d
             /\ stream' = [stream EXCEPT !.dataset = d]
       \/ /\ runOutcome' = "raised"
          /\ runError' = "ScrapeError"
          /\ UNCHANGED <<scraped_data, stream>>
    /\ pc' = "run_ret"
    /\ UNCHANGED <<entry, click, loggers, jobVars, driver, quitCalls, phase, navigated,
                   scraped, navFailed, evaluated, alertPosts, dateRaised, discord_webhook,
                   upcoming_deadlines, loginVars, solveVars, scrapeVars, dateVars,
                   checkVars, alertVars>>

\* Lines 136-146: the client opens the stream of a job that has a queue.
StreamConnect ==
    /\ entry = "stream"
    /\ stream.at = "not_connected"
    /\ task_queues
    /\ stream' = [stream EXCEPT !.at = "loop"]
    /\ UNCHANGED <<entry, pc, click, loggers, jobVars, runVars, loginVars, solveVars,
                   scrapeVars, dateVars, checkVars, alertVars>>

\* The client goes away, at any time while the stream is open.
ClientDisconnect ==
    /\ entry = "stream"
    /\ stream.at \notin {"not_connected", "ended"}
    /\ ~stream.disconnected
    /\ stream' = [stream EXCEPT !.disconnected = TRUE]
    /\ UNCHANGED <<entry, pc, click, loggers, jobVars, runVars, loginVars, solveVars,
                   scrapeVars, dateVars, checkVars, alertVars>>

\* Lines 147-169: one turn of the loop: leave when the client is gone, else
\* take the head of the queue and send it as a log event, else (queue.Empty)
\* go on to look at the status.
StreamPoll ==
    /\ entry = "stream"
    /\ stream.at = "loop"
    /\ IF stream.disconnected
       THEN /\ stream' = [stream EXCEPT !.at = "del_queues"]
            /\ UNCHANGED log_queue
       ELSE IF log_queue # <<>>
       THEN /\ stream' = [stream EXCEPT
                             !.events = Append(@, [type |-> "log", data |-> Head(log_queue)])]
            /\ log_queue' = Tail(log_queue)
       ELSE /\ stream' = [stream EXCEPT !.at = "status"]
            /\ UNCHANGED log_queue
    /\ UNCHANGED <<entry, pc, click, loggers, task_queues, task_statuses, task_results,
                   streamEnded, runVars, loginVars, solveVars, scrapeVars, dateVars,
                   checkVars, alertVars>>

\* Lines 171-172, 178, 183-184: read the job's status; sleep and loop again
\* unless it is terminal.
StreamReadStatus ==
    /\ entry = "stream"
    /\ stream.at = "status"
    /\ stream' = [stream EXCEPT
                     !.current_status = task_statuses,
                     !.at = IF task_statuses \in {"completed", "error"}
                            THEN "terminal" ELSE "loop"]
    /\ UNCHANGED <<entry, pc, click, loggers, jobVars, runVars, loginVars, solveVars,
                   scrapeVars, dateVars, checkVars, alertVars>>

\* Lines 173-177 and 179-182: read task_results and send the terminal
\* events: the results and the status "completed", or the status "error"
\* with the message.
StreamEmitTerminal ==
    /\ entry = "stream"
    /\ stream.at = "terminal"
    /\ stream' = [stream EXCEPT
                     !.at = "del_queues",
                     !.events =
                         IF stream.current_status = "completed"
                         THEN @ \o << [type |-> "results", data |-> ResultRead(task_results)],
                                      [type |-> "status", data |-> "completed"] >>
                         ELSE Append(@, [type |-> "status", data |-> "error",
                                         message |-> MessageRead(task_results)])]
    /\ UNCHANGED <<entry, pc, click, loggers, jobVars, runVars, loginVars, solveVars,
                   scrapeVars, dateVars, checkVars, alertVars>>

\* Lines 191-199: the finally clause deletes the job's entries, one
\* dictionary after the other.
StreamFinally ==
    /\ entry = "stream"
    /\ stream.at \in {"del_queues", "del_results", "del_statuses"}
    /\ CASE stream.at = "del_queues" ->
               /\ task_queues' = FALSE
               /\ stream' = [stream EXCEPT !.at = "del_results"]
               /\ UNCHANGED <<task_results, task_statuses, streamEnded>>
         [] stream.at = "del_results" ->
               /\ task_results' = NoResult
               /\ stream' = [stream EXCEPT !.at = "del_statuses"]
               /\ UNCHANGED <<task_queues, task_statuses, streamEnded>>
         [] stream.at = "del_statuses" ->
               /\ task_statuses' = "absent"
               /\ streamEnded' = TRUE
               /\ stream' = [stream EXCEPT !.at = "ended"]
               /\ UNCHANGED <<task_queues, task_results>>
    /\ UNCHANGED <<entry, pc, click, loggers, log_queue, runVars, loginVars, solveVars,
                   scrapeVars, dateVars, checkVars, alertVars>>

NextStream ==
    \/ WrapperEnter \/ WrapperFirstWrite \/ WrapperSecondWrite \/ WrapperFinally
    \/ StreamRunLog \/ StreamRunEnd
    \/ StreamConnect \/ ClientDisconnect \/ StreamPoll \/ StreamReadStatus
    \/ StreamEmitTerminal \/ StreamFinally

---------------------------------------------------------------------------
(* Initial states and specifications *)

InitJobVars ==
    /\ task_queues = TRUE
    /\ task_statuses = "queued"
    /\ task_results = NoResult
    /\ log_queue = <<>>
    /\ streamEnded = FALSE

InitRunVars ==
    /\ driver = "none"
    /\ quitCalls = 0
    /\ scraped_data = [quizzes |-> EmptyResult, assignments |-> EmptyResult]
    /\ phase = "idle"
    /\ runOutcome = "none"
    /\ runError = "none"
    /\ navigated = {}
    /\ scraped = {}
    /\ navFailed = {}
    /\ evaluated = FALSE
    /\ alertPosts = 0
    /\ dateRaised = FALSE
    /\ discord_webhook = "unread"
    /\ upcoming_deadlines = 0

InitLoginVars ==
    /\ attempt = 0
    /\ loginOutcome = "none"
    /\ loginError = "none"
    /\ loginGets = 0
    /\ retryFails = 0
    /\ att = NoFlags
    /\ exc = "none"
    /\ url = "blank"
    /\ pageMsg = "none"

InitSolveVars ==
    /\ sAttempt = 0
    /\ poll_attempt = 0
    /\ creates = 0
    /\ failedAttempts = 0
    /\ solveOutcome = "none"
    /\ solution = ""
    /\ lastReply = "none"

\* Outside their own specifications the click, the stream and the second
\* run are not there.
InitSideVars ==
    /\ click = "none"
    /\ stream = "none"
    /\ loggers = "none"

InitCheckVars ==
    /\ data = "none"
    /\ days_threshold = 0
    /\ lag = 0
    /\ upcoming = <<>>
    /\ checkOutcome = "none"

InitAlertVars ==
    /\ webhook_url = "none"
    /\ upcoming_tasks = <<>>
    /\ chunk = 0
    /\ posts = <<>>
    /\ errorLogged = FALSE
    /\ alertOutcome = "none"

InitDateVars ==
    /\ date_str = "none"
    /\ now = "none"
    /\ deadline = "none"

InitScrapeVars ==
    /\ kind = "none"
    /\ courses = 0
    /\ index = 0
    /\ results = EmptyResult
    /\ scrapeOutcome = "none"
    /\ sectionsShown = 0
    /\ fates = <<>>
    /\ itemReads = "none"
    /\ item = "none"
    /\ itemsShown = 0

\* One job: trigger_scraper (lines 110-129) has stored its queue and the
\* status "queued" and handed run_scraper_task_wrapper to the worker.
Init ==
    /\ entry = "job"
    /\ pc = "wrapper_enter"
    /\ max_retries = MAX_LOGIN_RETRIES
    /\ retries = CAPTCHA_SOLVE_RETRIES
    /\ InitJobVars /\ InitRunVars /\ InitLoginVars /\ InitSolveVars
    /\ InitSideVars
    /\ InitCheckVars /\ InitAlertVars /\ InitDateVars /\ InitScrapeVars

Next == NextJob \/ NextRun \/ NextLogin \/ NextScrape

Spec == Init /\ [][Next]_vars

\* One call of solve_captcha_api with retries drawn from 0..MaxSolveArg.
InitSolve ==
    /\ entry = "solve"
    /\ pc = "solve_enter"
    /\ retries \in 0..MaxSolveArg
    /\ max_retries = MAX_LOGIN_RETRIES
    /\ InitJobVars /\ InitRunVars /\ InitLoginVars /\ InitSolveVars
    /\ InitSideVars
    /\ InitCheckVars /\ InitAlertVars /\ InitDateVars /\ InitScrapeVars

SpecSolve == InitSolve /\ [][NextSolve]_vars

\* One call of login with max_retries drawn from 0..MaxRetriesArg.
InitLogin ==
    /\ entry = "login"
    /\ pc = "login_enter"
    /\ max_retries \in 0..MaxRetriesArg
    /\ retries = CAPTCHA_SOLVE_RETRIES
    /\ InitJobVars /\ InitRunVars /\ InitLoginVars /\ InitSolveVars
    /\ InitSideVars
    /\ InitCheckVars /\ InitAlertVars /\ InitDateVars /\ InitScrapeVars

SpecLogin == InitLogin /\ [][NextLogin]_vars

\* One call of scrape_quizzes or scrape_assignments on a freshly loaded
\* listing page.
InitScrape ==
    /\ entry = "scrape"
    /\ pc = "scrape_enter"
    /\ max_retries = MAX_LOGIN_RETRIES
    /\ retries = CAPTCHA_SOLVE_RETRIES
    /\ InitJobVars /\ InitRunVars /\ InitLoginVars /\ InitSolveVars
    /\ InitSideVars
    /\ InitCheckVars /\ InitAlertVars /\ InitDateVars
    /\ kind \in {"quizzes", "assignments"}
    /\ courses = 0
    /\ index = 0
    /\ results = EmptyResult
    /\ scrapeOutcome = "none"
    /\ sectionsShown = 0
    /\ fates = <<>>
    /\ itemReads = "none"
    /\ item = "none"
    /\ itemsShown = 0

SpecScrape == InitScrape /\ [][NextScrape]_vars

\* One pass of the item loop of scrape_quizzes or scrape_assignments, on an
\* item whose fields read as itemReads.
InitItem ==
    /\ entry = "item"
    /\ pc = "item_enter"
    /\ max_retries = MAX_LOGIN_RETRIES
    /\ retries = CAPTCHA_SOLVE_RETRIES
    /\ InitJobVars /\ InitRunVars /\ InitLoginVars /\ InitSolveVars
    /\ InitSideVars
    /\ InitCheckVars /\ InitAlertVars /\ InitDateVars
    /\ kind \in {"quizzes", "assignments"}
    /\ itemReads \in (IF kind = "quizzes" THEN QuizReads ELSE AssignmentReads)
    /\ courses = 0
    /\ index = 0
    /\ results = EmptyResult
    /\ scrapeOutcome = "none"
    /\ sectionsShown = 0
    /\ fates = <<>>
    /\ item = "none"
    /\ itemsShown = 0

SpecItem == InitItem /\ [][NextItem]_vars

\* One call of parse_date.
InitParse ==
    /\ entry = "parse"
    /\ pc = "parse_enter"
    /\ max_retries = MAX_LOGIN_RETRIES
    /\ retries = CAPTCHA_SOLVE_RETRIES
    /\ InitJobVars /\ InitRunVars /\ InitLoginVars /\ InitSolveVars
    /\ InitSideVars
    /\ InitCheckVars /\ InitAlertVars /\ InitScrapeVars
    /\ date_str \in DateStrings
    /\ now \in Nows
    /\ deadline = "none"

SpecParse == InitParse /\ [][NextParse]_vars

\* One call of check_upcoming_deadlines, at noon of Nov 3, 2026.
InitCheck ==
    /\ entry = "check"
    /\ pc = "check_enter"
    /\ max_retries = MAX_LOGIN_RETRIES
    /\ retries = CAPTCHA_SOLVE_RETRIES
    /\ InitJobVars /\ InitRunVars /\ InitLoginVars /\ InitSolveVars
    /\ InitSideVars
    /\ InitAlertVars /\ InitScrapeVars
    /\ date_str = "none"
    /\ deadline = "none"
    /\ now = [day |-> 739923, minute |-> 720]
    /\ \E n \in 0..MaxTasks :
          \E run \in [1..n -> TaskDates], a \in 0..n :
             \E b \in a..n : data = DataOf(run, a, b)
    /\ days_threshold = DEADLINE_THRESHOLD_DAYS
    /\ lag \in {0, 1}
    /\ upcoming = <<>>
    /\ checkOutcome = "none"

SpecCheck == InitCheck /\ [][NextCheck]_vars

\* One call of send_deadline_alerts; the deadlines are known by their
\* place in the list it is given.
InitAlerts ==
    /\ entry = "alerts"
    /\ pc = "alerts_enter"
    /\ max_retries = MAX_LOGIN_RETRIES
    /\ retries = CAPTCHA_SOLVE_RETRIES
    /\ InitJobVars /\ InitRunVars /\ InitLoginVars /\ InitSolveVars
    /\ InitSideVars
    /\ InitCheckVars /\ InitDateVars /\ InitScrapeVars
    /\ webhook_url \in {"none", "invalid", "valid"}
    /\ \E n \in 0..MaxAlertTasks : upcoming_tasks = [j \in 1..n |-> j]
    /\ chunk = 0
    /\ posts = <<>>
    /\ errorLogged = FALSE
    /\ alertOutcome = "none"

SpecAlerts == InitAlerts /\ [][NextAlerts]_vars

\* One call of click_element_robustly.
InitClick ==
    /\ entry = "click"
    /\ pc = "click_enter"
    /\ max_retries = MAX_LOGIN_RETRIES
    /\ retries = CAPTCHA_SOLVE_RETRIES
    /\ InitJobVars /\ InitRunVars /\ InitLoginVars /\ InitSolveVars
    /\ InitCheckVars /\ InitAlertVars /\ InitDateVars /\ InitScrapeVars
    /\ click \in ClickCalls
    /\ stream = "none"
    /\ loggers = "none"

SpecClick == InitClick /\ [][NextClick]_vars

\* A job as trigger_scraper leaves it (lines 123-127), its wrapper about to
\* start and its client not yet connected.
InitStream ==
    /\ entry = "stream"
    /\ pc = "wrapper_enter"
    /\ max_retries = MAX_LOGIN_RETRIES
    /\ retries = CAPTCHA_SOLVE_RETRIES
    /\ InitJobVars /\ InitRunVars /\ InitLoginVars /\ InitSolveVars
    /\ InitCheckVars /\ InitAlertVars /\ InitDateVars /\ InitScrapeVars
    /\ click = "none"
    /\ loggers = "none"
    /\ stream = [at |-> "not_connected", disconnected |-> FALSE, events |-> <<>>,
                 current_status |-> "none", logged |-> 0,
                 dataset |-> [quizzes |-> EmptyResult, assignments |-> EmptyResult]]

SpecStream == InitStream /\ [][NextStream]_vars

\* Two runs of run_dulms_scraper about to start; the module logger has no
\* handler (lines 47-50).
InitLoggers ==
    /\ entry = "loggers"
    /\ pc = "loggers"
    /\ max_retries = MAX_LOGIN_RETRIES
    /\ retries = CAPTCHA_SOLVE_RETRIES
    /\ InitJobVars /\ InitRunVars /\ InitLoginVars /\ InitSolveVars
    /\ InitCheckVars /\ InitAlertVars /\ InitDateVars /\ InitScrapeVars
    /\ click = "none"
    /\ stream = "none"
    /\ loggers = [handlers |-> {},
                  queue    |-> [r \in Runs |-> <<>>],
                  at       |-> [r \in Runs |-> "idle"],
                  emitted  |-> [r \in Runs |-> 0],
                  path     |-> [r \in Runs |-> "none"]]

SpecLoggers == InitLoggers /\ [][NextLoggers]_vars

---------------------------------------------------------------------------
(* Properties of a whole job (stated for Spec) *)

\* C1: in a run where initialize_driver returned a driver, driver.quit() is
\* called exactly once, and before the run returns or raises, whichever way
\* the run ends: never more than once at any time, never without a driver,
\* and once the run has returned or raised with a driver the one call has
\* been made.
C1_QuitExactlyOnce ==
    /\ quitCalls <= 1
    /\ (driver = "none") => (quitCalls = 0)
    /\ (runOutcome # "none" /\ driver # "none") => (quitCalls = 1 /\ driver = "closed")
    /\ (quitCalls = 1) => (pc \in {"run_ret", "wrapper_second", "wrapper_finally", "wrapper_done"})

\* C1 witness: a run whose extraction raised after a successful login has
\* ended with the browser quit once.
C1_Witness ==
    /\ runOutcome = "raised"
    /\ runError = "ScrapeError"
    /\ loginOutcome = "returned"
    /\ quitCalls = 1
    /\ driver = "closed"

\* The positions of run_dulms_scraper's own statements, outside the calls of
\* login and the scrape functions.
RunLevel ==
    {"run_enter", "run_nav_1", "run_nav_2", "run_evaluate", "run_notify", "run_report",
     "run_except", "run_finally", "run_ret"}

\* C2: the phases of a run follow one another in the order login, quizzes,
\* assignments, deadline evaluation, alert sending and never go back; a phase
\* starts only from a statement of the run itself, that is when the call of
\* the previous phase is over; and navigation, extraction, evaluation and
\* notification happen only after login returned successfully.
C2_PhasesInOrder ==
    /\ [][PhaseRank(phase') >= PhaseRank(phase)]_vars
    /\ [][(phase' # phase) => (pc \in RunLevel)]_vars
    /\ [](phase \in {"quizzes", "assignments", "evaluate", "notify"}
            => loginOutcome = "returned")
    /\ []((navigated # {} \/ scraped # {} \/ evaluated \/ alertPosts > 0)
            => loginOutcome = "returned")
    /\ []("assignments" \in navigated => "quizzes" \in navigated)
    /\ [](evaluated => navigated = {"quizzes", "assignments"})
    /\ [](alertPosts > 0 => evaluated)

\* C2 witness: a run went through every phase and sent an alert.
C2_Witness ==
    /\ phase = "notify"
    /\ scraped = {"quizzes", "assignments"}
    /\ evaluated
    /\ alertPosts = 1
    /\ upcoming_deadlines > 0

\* C3: when login raised, the run raises the same error, having navigated to
\* neither listing page, extracted nothing, evaluated nothing and sent no
\* alert; and the wrapper's two steps that follow write the status "error"
\* and then a message result that holds the error's text.
C3_LoginErrorAbortsRun ==
    /\ [](loginOutcome = "raised"
            => /\ navigated = {} /\ scraped = {} /\ ~evaluated /\ alertPosts = 0
               /\ (runOutcome # "none" => (runOutcome = "raised" /\ runError = loginError))
               /\ pc \notin {"run_nav_1", "run_nav_2", "scrape_enter", "scrape_course",
                             "scrape_ret", "run_evaluate", "run_notify", "run_report"})
    /\ [][(loginOutcome = "raised" /\ pc = "run_ret" /\ pc' # pc)
            => (task_statuses' = "error" /\ pc' = "wrapper_second")]_vars
    /\ [][(loginOutcome = "raised" /\ pc = "wrapper_second" /\ pc' # pc)
            => (task_results' = [type |-> "message", data |-> "none", text |-> loginError]
                /\ task_statuses' = task_statuses)]_vars

\* C3 witness: login raised for invalid credentials and the wrapper has
\* recorded the job as errored with that error's text.
C3_Witness ==
    /\ loginOutcome = "raised"
    /\ loginError = "InvalidCredentials"
    /\ pc = "wrapper_finally"
    /\ task_statuses = "error"
    /\ task_results = [type |-> "message", data |-> "none", text |-> "InvalidCredentials"]

\* C4: once login has returned successfully the run returns a dataset and
\* does not raise, whatever fails in navigation, extraction or alert delivery
\* (a run that raised while parsing a date is left aside here).
C4_NoRaiseAfterLogin ==
    (loginOutcome = "returned" /\ runOutcome # "none" /\ ~dateRaised)
        => runOutcome = "returned"

\* C5: when navigate_to_page failed for a listing page, the scrape function
\* of that page is not called and the dataset keeps the initial empty result
\* for that content type; the step that meets the failure leaves the dataset
\* as it is (so the other content type's result too) and goes on to the next
\* phase with no error pending.
C5_FailedNavigationSkipsScrape ==
    /\ [](\A k \in navFailed : k \notin scraped /\ scraped_data[k] = EmptyResult)
    /\ [][(navFailed' # navFailed)
            => /\ scraped_data' = scraped_data
               /\ scraped' = scraped
               /\ runError' = "none"
               /\ pc' = (IF pc = "run_nav_1" THEN "run_nav_2" ELSE "run_evaluate")]_vars
    /\ []((runOutcome = "returned" /\ navFailed = {"quizzes"})
            => "assignments" \in scraped)

\* C5 witness: a run returned after the navigation to the quizzes page failed
\* and the assignments were extracted with a record.
C5_Witness ==
    /\ runOutcome = "returned"
    /\ navFailed = {"quizzes"}
    /\ scraped = {"assignments"}
    /\ scraped_data.quizzes = EmptyResult
    /\ scraped_data.assignments.records > 0

---------------------------------------------------------------------------
(* Properties of login (stated for SpecLogin) *)

\* C6: when every attempt of a login call failed for a retryable reason (each
\* attempt made reached the retry check of line 354, and at least one was
\* made), login has made exactly max_retries attempts, each with one
\* navigation to the login page, and has raised "Maximum login attempts
\* reached."; at no time has it made more than max_retries attempts.
C6_ExactlyMaxRetriesAttempts ==
    /\ loginGets <= max_retries
    /\ (pc = "login_ret" /\ loginGets >= 1 /\ retryFails = loginGets)
          => /\ loginOutcome = "raised"
             /\ loginError = "MaxAttempts"
             /\ loginGets = max_retries

\* C6 witness: a call with max_retries >= 2 that ends after max_retries
\* retryable failures, the last one a timed-out wait for the profile URL.
C6_Witness ==
    /\ pc = "login_ret"
    /\ max_retries >= 2
    /\ retryFails = max_retries
    /\ loginGets = max_retries
    /\ loginError = "MaxAttempts"
    /\ att.submitted
    /\ exc = "Timeout"

\* C7: an attempt that submitted the form and is left on the login page with
\* the page reporting an invalid username or password ends with login raising
\* the invalid-credentials error, never at the retry check and never with
\* another error.
C7_InvalidCredentialsRaiseAtOnce ==
    (/\ pc \in {"login_retry", "login_ret"}
     /\ att.submitted
     /\ url = "Login.aspx"
     /\ pageMsg = "Invalid username or password")
        => (pc = "login_ret" /\ loginError = "InvalidCredentials")

\* C8: on an attempt where capturing or solving the CAPTCHA raised, the form
\* is not submitted, and while the attempt is not the last one login leaves
\* its failure handling only by starting the next attempt.
C8_CaptchaFailureStartsNextAttempt ==
    /\ [](att.captchaRaised => ~att.submitted)
    /\ [][(/\ att.captchaRaised
           /\ attempt + 1 < max_retries
           /\ pc \in {"login_classify", "login_retry"})
             => \/ pc' \in {"login_classify", "login_retry"}
                \/ (pc' = "login_get" /\ attempt' = attempt + 1 /\ loginOutcome' = "none")]_vars

\* C9: on an attempt where one of the three fields is not found, nothing is
\* typed, no CAPTCHA is captured or sent for solving and the form is not
\* submitted; the attempt is one of the at most max_retries attempts (it made
\* its own navigation), and the retry check that follows it either starts the
\* attempt with the next index or raises the login-failed error.
C9_MissingFieldFailsAttemptEarly ==
    /\ [](att.fieldsMissing
            => /\ ~att.typed /\ ~att.captured /\ ~att.solveRequested /\ ~att.submitted
               /\ loginGets = attempt + 1
               /\ loginGets <= max_retries)
    /\ [][(att.fieldsMissing /\ pc = "login_retry")
             => /\ retryFails' = retryFails + 1
                /\ \/ (pc' = "login_get" /\ attempt' = attempt + 1 /\ attempt' < max_retries)
                   \/ (pc' = "login_ret" /\ loginError' = "MaxAttempts"
                       /\ attempt = max_retries - 1)]_vars

\* C9 witness: the second attempt of a call found a field missing and is at
\* the retry check.
C9_Witness ==
    /\ pc = "login_retry"
    /\ att.fieldsMissing
    /\ attempt = 1

---------------------------------------------------------------------------
(* Properties of solve_captcha_api (stated for SpecSolve) *)

\* C10: for retries >= 1 a call makes at most `retries` createTask
\* submissions and at most 10 polls per submission; a failed attempt that is
\* not the last one is followed by a new submission, not by an error to the
\* caller; the call ends by returning the non-empty text of a "ready" poll,
\* or by raising after exactly `retries` failed attempts.
C10_SolveBoundedRetries ==
    /\ []((retries >= 1) => (creates <= retries /\ poll_attempt <= PollLimit))
    /\ [][(retries >= 1 /\ pc = "solve_failed" /\ failedAttempts < retries)
             => (pc' = "solve_create" /\ solveOutcome' = "none")]_vars
    /\ [][(retries >= 1 /\ pc = "solve_create")
             => (creates' = creates + 1 /\ poll_attempt' = 0)]_vars
    /\ []((retries >= 1 /\ pc = "solve_ret")
            => \/ (solveOutcome = "returned" /\ solution # "" /\ lastReply = "ready_text")
               \/ (solveOutcome = "raised" /\ failedAttempts = retries /\ creates = retries))

\* C10 witness: a call with retries >= 2 raised after its last attempt ran
\* out of polls.
C10_Witness ==
    /\ pc = "solve_ret"
    /\ retries >= 2
    /\ solveOutcome = "raised"
    /\ lastReply = "poll_timeout"
    /\ poll_attempt = PollLimit

\* C11: when a poll reports a status that is neither "processing" nor "ready",
\* the call raises to its caller at once: the step that follows the failed
\* poll ends the call with an exception and no further createTask (nor poll)
\* is made.
C11_ErrorStatusRaisesAtOnce ==
    [][(pc = "solve_failed" /\ lastReply = "error_status")
         => (pc' = "solve_ret" /\ solveOutcome' = "raised" /\ creates' = creates)]_vars

---------------------------------------------------------------------------
(* Properties of scrape_quizzes / scrape_assignments (stated for SpecScrape) *)

\* C12: at every point of an extraction, courses_processed plus the length
\* of the failed-expansion list is at most the length of
\* courses_found_on_page, whatever happens to each course.
C12_ProcessedPlusFailedWithinFound ==
    results.courses_processed + Len(results.courses_failed_expansion)
        <= Len(results.courses_found_on_page)

\* The passes of the course loop that took path p, as indices into fates.
PassesOn(p) == {j \in 1..Len(fates) : fates[j].path = p}

\* No pass so far met a stale element or an exception: every section either
\* failed to expand or was expanded and searched for items.
PlainPage == \A j \in 1..Len(fates) : fates[j].path \in {"expand_failed", "no_items", "items"}

\* The names of the sections that failed to expand, in page order.
RECURSIVE FailedNames(_)
FailedNames(fs) ==
    IF fs = <<>> THEN <<>>
    ELSE LET rest == FailedNames(Tail(fs))
         IN  IF Head(fs).path = "expand_failed" THEN <<Head(fs).name>> \o rest ELSE rest

C14_ScrapeNeverRaises ==
    (pc = "scrape_ret")
        => /\ scrapeOutcome = "returned"
           /\ (courses = 0) => (results = EmptyResult)

\* The names the passes recorded in courses_found_on_page, in pass order.
RECURSIVE RecordedNames(_)
RecordedNames(fs) ==
    IF fs = <<>> THEN <<>>
    ELSE LET rest == RecordedNames(Tail(fs))
         IN  IF Head(fs).name # "" THEN <<Head(fs).name>> \o rest ELSE rest

\* C15: a pass of the course loop whose section failed to expand, or whose
\* processing raised, leaves courses_processed and the item counters as they
\* were and goes on to the next section; the passes take the sections one by
\* one in page order, so that courses_found_on_page lists the names in that
\* order and a call that returns has visited every section.
C15_FailedCourseSkippedLoopGoesOn ==
    /\ [][(pc = "scrape_course" /\ Len(fates') = Len(fates) + 1
           /\ fates'[Len(fates')].path \in
                 {"expand_failed", "raised_before_name", "raised_after_count"})
            => /\ results'.courses_processed = results.courses_processed
               /\ results'.total_found = results.total_found
               /\ results'.records = results.records
               /\ pc' = "scrape_course"
               /\ index' = index + 1]_vars
    /\ [](pc \in {"scrape_course", "scrape_ret"}
            => /\ Len(fates) = index
               /\ results.courses_found_on_page = RecordedNames(fates))
    /\ []((pc = "scrape_ret" /\ scrapeOutcome = "returned") => index = courses)

\* The items of a run whose extraction met a stale element.
StaleIn(items) == Cardinality({j \in 1..Len(items) : items[j] = "stale"})

\* C18: an item whose extraction meets a stale element yields no record and
\* stops nothing: a pass over a section with items appends one record for
\* every other item of the section, wherever the stale ones sit, counts the
\* section as processed and goes on to the next section; a call that returns
\* has taken every section.
C18_StaleItemSkippedOthersRecorded ==
    /\ [][(pc = "scrape_course" /\ Len(fates') = Len(fates) + 1
           /\ fates'[Len(fates')].path = "items")
            => LET its == fates'[Len(fates')].items
               IN  /\ results'.records = results.records + (Len(its) - StaleIn(its))
                   /\ results'.total_found = results.total_found + Len(its)
                   /\ results'.courses_processed = results.courses_processed + 1
                   /\ pc' = "scrape_course"
                   /\ index' = index + 1]_vars
    /\ []((pc = "scrape_ret" /\ scrapeOutcome = "returned") => Len(fates) = courses)

\* C18 witness: the first item of the first section was stale, the item after
\* it was recorded, and the second section was processed as well.
C18_Witness ==
    /\ pc = "scrape_ret"
    /\ courses = 2
    /\ fates[1].path = "items"
    /\ fates[1].items = <<"stale", "none">>
    /\ fates[2].path = "no_items"
    /\ results.records = 1
    /\ results.courses_processed = 2

\* The item elements located, and those skipped as stale, over the passes.
RECURSIVE LocatedOver(_)
LocatedOver(fs) ==
    IF fs = <<>> THEN 0
    ELSE (IF Head(fs).path = "items" THEN Len(Head(fs).items) ELSE 0) + LocatedOver(Tail(fs))
RECURSIVE StaleOver(_)
StaleOver(fs) ==
    IF fs = <<>> THEN 0
    ELSE (IF Head(fs).path = "items" THEN StaleIn(Head(fs).items) ELSE 0) + StaleOver(Tail(fs))

\* C39: at the end of an extraction the total item counter is the sum, over
\* the processed courses, of the item elements located in each, and the
\* number of records is at most that counter, short of it by exactly the
\* number of items skipped as stale.
C39_TotalIsSumRecordsShortByStale ==
    (pc = "scrape_ret" /\ scrapeOutcome = "returned")
        => /\ results.total_found = LocatedOver(fates)
           /\ results.records <= results.total_found
           /\ results.total_found - results.records = StaleOver(fates)

\* C39 witness: two sections with one item each, the first item skipped as
\* stale and the second recorded through the error path.
C39_Witness ==
    /\ pc = "scrape_ret"
    /\ scrapeOutcome = "returned"
    /\ Len(fates) = 2
    /\ fates[1].path = "items" /\ fates[1].items = <<"stale">>
    /\ fates[2].path = "items" /\ fates[2].items = <<"error">>
    /\ results.total_found = 2
    /\ results.records = 1

---------------------------------------------------------------------------
(* Properties of the item loops (stated for SpecItem) *)

\* C16: a quiz record is in exactly one of quizzes_with_results and
\* quizzes_without_results, and it is in quizzes_with_results iff its grade is
\* not 'Not Graded' and contains '/', the records of the error path included;
\* a grade read as '--' or as empty text is stored as 'Not Graded'.
C16_QuizBucketFollowsGrade ==
    (pc = "item_ret" /\ kind = "quizzes" /\ item.bucket # "skipped")
        => /\ item.bucket \in {"with", "without"}
           /\ (item.bucket = "with") <=> (item.grade # "Not Graded" /\ HasSlash(item.grade))
           /\ (Got(itemReads, QuizSteps, "grade") /\ itemReads.grade \in {"--", ""})
                 => (item.grade = "Not Graded")

\* The fields of a record of each kind, with the read each comes from and the
\* value it holds when that read gives t.
Extracted(k, f, t) ==
    CASE k = "quizzes" /\ f = "name"         -> QuizName(t)
      [] k = "quizzes" /\ f = "status"       -> QuizClosedAt(t)
      [] k = "quizzes" /\ f = "grade"        -> QuizGrade(t)
      [] k = "quizzes" /\ f = "attempts"     -> QuizAttempts(t)
      [] k = "assignments" /\ f = "name"     -> AssignmentName(t)
      [] k = "assignments" /\ f = "grade"    -> GradingStatus(t)
FieldOf(k, f) ==
    CASE f = "name"                      -> "name"
      [] f = "status"                    -> "closed_at"
      [] f = "attempts"                  -> "attempts"
      [] k = "quizzes" /\ f = "grade"    -> "grade"
      [] k = "assignments" /\ f = "grade" -> "grading_status"
SingleReads(k) == IF k = "quizzes" THEN {"name", "status", "grade", "attempts"}
                  ELSE {"name", "grade"}
ReadsOf(k) == IF k = "quizzes" THEN {"name", "status", "grade", "attempts"}
              ELSE {"name", "submit", "submit_scan", "date", "date_scan", "grade"}

\* C17: when the extraction of one field of an item fails, and not with a
\* stale element, the item is still recorded and every other field that can
\* be read holds its extracted value.
C17_OnlyFailedFieldIsSentinel ==
    (/\ pc = "item_ret"
     /\ Cardinality({f \in ReadsOf(kind) : itemReads[f] = "error"}) = 1
     /\ \A f \in ReadsOf(kind) : itemReads[f] # "stale")
        => /\ item.bucket # "skipped"
           /\ \A f \in SingleReads(kind) :
                 (itemReads[f] # "error")
                    => (item[FieldOf(kind, f)] = Extracted(kind, f, itemReads[f]))

\* The text a date strategy yields, "" when it yields none.
DirectText(reads) == IF reads.date = "absent" THEN "" ELSE reads.date
ScanText(reads) == IF reads.date_scan = "none" THEN "" ELSE reads.date_scan

\* C19: the raw date of an assignment is the text of the direct status
\* element when that text is not empty, and else the text of the first
\* sibling that matches the date pattern; closed_at is 'No Deadline Info'
\* only when both yield no text.
C19_DateFromFirstNonEmptyStrategy ==
    (/\ pc = "item_ret" /\ kind = "assignments"
     /\ \A f \in ReadsOf(kind) : itemReads[f] \notin Faults)
        => /\ item.closed_at =
                 AssignmentClosedAt(IF DirectText(itemReads) # "" THEN DirectText(itemReads)
                                    ELSE ScanText(itemReads))
           /\ (item.closed_at = "No Deadline Info")
                 => (DirectText(itemReads) = "" /\ ScanText(itemReads) = "")

---------------------------------------------------------------------------
(* Properties of parse_date (stated for SpecParse) *)

\* C20: parse_date never raises, whatever string it is given, relative dates
\* with arbitrarily large day or hour numbers included: it returns a point in
\* time or None.
C20_ParseDateNeverRaises ==
    (pc = "parse_ret") => (deadline.kind \in {"time", "null"})

\* C21: for 'No Deadline Info', 'No Status/Date', 'N/A', 'Unknown' and the
\* empty string, parse_date returns None and logs no warning.
C21_NullStringsGiveNoneSilently ==
    (pc = "parse_ret" /\ date_str.form \in NullStrings)
        => (deadline.kind = "null" /\ ~deadline.warned)

C21_Witness ==
    pc = "parse_ret" /\ date_str.form = "N/A" /\ deadline.kind = "null" /\ ~deadline.warned

\* C22: for 'Will be closed after: D days H hours' with D, H >= 0, parse_date
\* returns now + D days + H hours, the same for the same now.
C22_RelativeIsNowPlusSpan ==
    (pc = "parse_ret" /\ date_str.form = "relative")
        => /\ deadline.kind = "time"
           /\ deadline.day = now.day + date_str.days
                               + ((now.minute + 60 * date_str.hours) \div 1440)
           /\ deadline.minute = (now.minute + 60 * date_str.hours) % 1440

\* C23: for an absolute date, parse_date removes a leading 'Closed at:',
\* 'Opened at:' or 'Will be opened at:', pads a one-digit day, and returns
\* what the first of the five formats that parses gives; when none parses it
\* returns None and logs a warning.
C23_AbsoluteDateByFirstFormat ==
    /\ (pc = "parse_ret" /\ date_str.form = "absolute"
          /\ date_str.label \in {"none", "Closed at:", "Opened at:", "Will be opened at:"})
          => /\ deadline.kind = "time"
             /\ deadline.day = date_str.day /\ deadline.minute = date_str.minute
             /\ ~deadline.warned
             /\ deadline.cleaned.label = "none"
             /\ (date_str.fmt \in {1, 5}) => deadline.cleaned.padded
             /\ Parses(date_str.fmt, deadline.cleaned)
             /\ \A g \in 1..(date_str.fmt - 1) : ~Parses(g, deadline.cleaned)
    /\ (pc = "parse_ret"
          /\ \/ date_str.form \in {"garbage", "days_only"}
             \/ date_str.form = "absolute" /\ date_str.label = "Due:")
          => (deadline.kind = "null" /\ deadline.warned)

\* 'Closed at: Dec 5, 2024 at 11:59 PM' yields 2024-12-05 23:59.
C23_Witness ==
    /\ pc = "parse_ret"
    /\ date_str = Absolute("Closed at:", 1, [day |-> 739225, minute |-> 1439], FALSE)
    /\ deadline.kind = "time" /\ deadline.day = 739225 /\ deadline.minute = 1439

---------------------------------------------------------------------------
(* Properties of check_upcoming_deadlines (stated for SpecCheck) *)

\* The minutes from the evaluation (line 746) to a due time.
MinutesAhead(due) == (due.day - now.day) * 1440 + (due.minute - now.minute)

\* The positions of the returned list that hold the record at position j.
PlacesOf(j) == {k \in 1..Len(upcoming) : upcoming[k].task = j}

\* C24: every deadline check_upcoming_deadlines returns comes from a record
\* whose date string parsed, is due strictly later than the evaluation, and
\* has a whole days_left with 0 <= days_left <= days_threshold.
C24_DeadlinesAreParsedFutureWithinThreshold ==
    (pc = "check_ret" /\ checkOutcome = "returned")
        => \A k \in 1..Len(upcoming) :
              LET d == upcoming[k]
                  r == AllTasks(data)[d.task]
              IN  /\ d.task \in 1..Len(AllTasks(data))
                  /\ d.due_date_str = r.closed_at
                  /\ r.closed_at.form \in {"absolute", "relative"}
                  /\ ParsedAt(AllTasks(data), d.task, now, lag).kind = "time"
                  /\ MinutesAhead(d.due_date_obj) > 0
                  /\ d.days_left \in 0..days_threshold

\* Returned: a list of two deadlines, from data that also holds a record due
\* at the very moment of the evaluation.
C24_Witness ==
    /\ pc = "check_ret" /\ checkOutcome = "returned"
    /\ Len(upcoming) = 2
    /\ \E j \in 1..Len(AllTasks(data)) :
          /\ AllTasks(data)[j].closed_at.form = "absolute"
          /\ AllTasks(data)[j].closed_at.day = now.day
          /\ AllTasks(data)[j].closed_at.minute = now.minute

\* C25: a record is in the returned list iff its parsed due time is strictly
\* in the future and days_left = floor((due - now) / 1 day) is at most the
\* threshold.
C25_IncludedIffFutureWithinThreshold ==
    (pc = "check_ret" /\ checkOutcome = "returned")
        => \A j \in 1..Len(AllTasks(data)) :
              LET p == ParsedAt(AllTasks(data), j, now, lag)
              IN  /\ Cardinality(PlacesOf(j)) <= 1
                  /\ (PlacesOf(j) # {})
                        <=> /\ p.kind = "time"
                            /\ MinutesAhead(p) > 0
                            /\ MinutesAhead(p) \div 1440 <= days_threshold
                  /\ \A k \in PlacesOf(j) :
                        upcoming[k].days_left = MinutesAhead(p) \div 1440

\* Threshold 3, one assignment due two days ahead and one quiz past due: one
\* deadline, the assignment, with days_left 2.
C25_Witness ==
    /\ pc = "check_ret" /\ checkOutcome = "returned" /\ days_threshold = 3
    /\ Len(data.assignments) = 1
    /\ data.assignments[1].closed_at.day = now.day + 2
    /\ Len(data.quizzes_with_results) = 0
    /\ Len(data.quizzes_without_results) = 1
    /\ data.quizzes_without_results[1].closed_at.day = 739225
    /\ Len(upcoming) = 1
    /\ upcoming[1].task = 1 /\ upcoming[1].type = "Assignment" /\ upcoming[1].days_left = 2

\* C26: the returned list is in ascending order of due time, and deadlines
\* of equal due time keep the order of the input (assignments, quizzes with
\* results, quizzes without).
C26_SortedByDueStable ==
    (pc = "check_ret" /\ checkOutcome = "returned")
        => \A k, l \in 1..Len(upcoming) :
              (k < l)
                 => /\ MinutesAhead(upcoming[k].due_date_obj)
                          <= MinutesAhead(upcoming[l].due_date_obj)
                    /\ (upcoming[k].due_date_obj = upcoming[l].due_date_obj)
                          => (upcoming[k].task < upcoming[l].task)

\* The first record is due after the other two, which are due together.
C26_Witness ==
    /\ pc = "check_ret" /\ checkOutcome = "returned"
    /\ Len(upcoming) = 3
    /\ upcoming[1].task = 2 /\ upcoming[2].task = 3 /\ upcoming[3].task = 1
    /\ upcoming[1].due_date_obj = upcoming[2].due_date_obj

---------------------------------------------------------------------------
(* Properties of send_deadline_alerts (stated for SpecAlerts) *)

\* C27: send_deadline_alerts never raises for a delivery failure, whatever
\* the POST raises, for the 'all clear' message and for the batches alike,
\* and a failed batch does not keep the later batches from being sent.
C27_DeliveryFailuresNeverRaise ==
    /\ (pc = "alerts_ret") => (alertOutcome = "returned")
    /\ (pc = "alerts_ret" /\ ValidWebhook(webhook_url) /\ upcoming_tasks # <<>>)
          => (Len(posts) = (Len(upcoming_tasks) + 9) \div 10)

\* C28: with a webhook URL that is missing or not of the Discord shape,
\* send_deadline_alerts makes no request and returns after logging an error,
\* whatever the list of deadlines.
C28_InvalidWebhookMakesNoRequest ==
    (webhook_url # "valid")
        => /\ posts = <<>>
           /\ (pc = "alerts_ret") => (errorLogged /\ alertOutcome = "returned")

C28_Witness ==
    /\ pc = "alerts_ret" /\ webhook_url = "invalid" /\ Len(upcoming_tasks) = 23
    /\ posts = <<>> /\ errorLogged

\* C29: with a valid webhook URL and no deadline, send_deadline_alerts makes
\* exactly one POST, the 'all clear' message.
C29_EmptyListSendsOneAllClear ==
    (webhook_url = "valid" /\ upcoming_tasks = <<>>)
        => /\ Len(posts) <= 1
           /\ \A k \in 1..Len(posts) : posts[k].kind = "all_clear"
           /\ (pc = "alerts_ret") => (Len(posts) = 1)

C29_Witness ==
    /\ pc = "alerts_ret" /\ webhook_url = "valid" /\ upcoming_tasks = <<>>
    /\ posts = <<Post("all_clear", <<>>, 0, 0)>> /\ alertOutcome = "returned"

\* C30: with a valid webhook URL and n >= 1 deadlines, send_deadline_alerts
\* makes ceil(n / 10) POSTs; batch i holds the deadlines 10(i-1)+1 to
\* min(10i, n) in the order given, and its text says part i of ceil(n / 10).
C30_BatchesOfTen ==
    LET n == Len(upcoming_tasks)
        parts == (n + 9) \div 10
    IN  (webhook_url = "valid" /\ n >= 1 /\ pc # "alerts_enter")
           => /\ Len(posts) <= parts
              /\ (pc = "alerts_ret") => (Len(posts) = parts)
              /\ \A i \in 1..Len(posts) :
                    /\ posts[i].kind = "batch"
                    /\ posts[i].part = i /\ posts[i].of = parts
                    /\ Len(posts[i].embeds) <= 10
                    /\ posts[i].embeds =
                          [j \in 1..((IF 10 * i < n THEN 10 * i ELSE n) - 10 * (i - 1)) |->
                              upcoming_tasks[10 * (i - 1) + j]]

\* 23 deadlines go out in batches of 10, 10 and 3.
C30_Witness ==
    /\ pc = "alerts_ret" /\ webhook_url = "valid" /\ Len(upcoming_tasks) = 23
    /\ Len(posts) = 3
    /\ Len(posts[1].embeds) = 10 /\ Len(posts[2].embeds) = 10 /\ Len(posts[3].embeds) = 3
    /\ posts[3].part = 3 /\ posts[3].of = 3

\* C38: for every max_retries >= 0, login returns normally only if on some
\* attempt the URL was seen to hold the profile path after the form was
\* submitted; in every other case it raises.
C38_ReturnsOnlyWhenProfileSeen ==
    (pc = "login_ret")
        => /\ loginOutcome \in {"returned", "raised"}
           /\ (loginOutcome = "returned")
                 => (att.submitted /\ url = "Profile/StudentProfile")

---------------------------------------------------------------------------
(* The dataset of a run (stated for Spec) *)

\* C40: the dataset run_dulms_scraper returns is the pair of the results
\* its two scrape calls returned, with the initial empty result where the
\* navigation failed: the dataset changes only when a scrape call returns,
\* and then in that call's entry only, so that the deadline evaluation, the
\* alerts and the quality report leave every record and counter as they were.
C40_DatasetIsTheScrapeResults ==
    /\ [][(scraped_data' # scraped_data) => (pc \in {"scrape_ret", "run_ret"})]_vars
    /\ [][(pc = "scrape_ret" /\ pc' # pc /\ scrapeOutcome = "returned")
            => /\ scraped_data'[kind] = results
               /\ \A k \in {"quizzes", "assignments"} \ {kind} :
                     scraped_data'[k] = scraped_data[k]]_vars
    /\ []((pc = "run_ret" /\ runOutcome = "returned")
            => \A k \in navFailed : scraped_data[k] = EmptyResult)

\* C40 witness: the navigation to the quizzes failed, the assignments were
\* scraped with a record, the deadlines were evaluated and an alert was
\* posted, and the run returns the dataset.
C40_Witness ==
    /\ pc = "run_ret"
    /\ runOutcome = "returned"
    /\ navFailed = {"quizzes"}
    /\ scraped_data.quizzes = EmptyResult
    /\ scraped_data.assignments.records > 0
    /\ evaluated
    /\ alertPosts > 0

---------------------------------------------------------------------------
(* Properties of click_element_robustly (stated for SpecClick) *)

\* C35: for an element that is not None, click_element_robustly returns
\* False only after both strategies were tried and failed: whenever the native
\* click does not succeed the scroll and script click is tried, and the
\* function returns True if either succeeds.
C35_FalseOnlyAfterEveryStrategy ==
    (pc = "click_ret" /\ click.element = "present")
        => /\ click.outcome \in {"true", "false"}
           /\ (click.native # "ok") => (click.tried = <<"native", "script">>)
           /\ (click.outcome = "false") => (click.tried = <<"native", "script">>)
           /\ (click.outcome = "true") <=> (click.native = "ok" \/ click.script = "ok")

---------------------------------------------------------------------------
(* Properties of the module logger (stated for SpecLoggers) *)

\* C31: run_dulms_scraper adds one handler for its log queue to the module
\* logger when it starts and removes it on every way out, by return or by
\* raise: the run's start and end change the logger's handlers by that one
\* handler only, after the run the handler is gone, and records logged later
\* are not put on the run's queue.
C31_HandlerAddedAndRemoved ==
    /\ [](\A r \in Runs :
            (r \in loggers.handlers) <=> (loggers.at[r] \in {"try", "finally"}))
    /\ [][\A r \in Runs :
            (loggers'.at[r] # loggers.at[r])
               => (loggers'.handlers \ {r} = loggers.handlers \ {r})]_vars
    /\ [][\A r \in Runs :
            (loggers.at[r] = "done") => (loggers'.queue[r] = loggers.queue[r])]_vars

\* Run A raised and is over; run B, still running, has logged since.
C31_Witness ==
    /\ loggers.at["A"] = "done" /\ loggers.path["A"] = "raised"
    /\ loggers.handlers = {"B"}
    /\ Len(loggers.queue["B"]) > Len(loggers.queue["A"])
    /\ Len(loggers.queue["A"]) > 0

\* C37: when two jobs run at the same time, each with its own log queue, a
\* job's queue gets the records of its own run only.
C37_QueueHoldsOwnRecordsOnly ==
    \A r \in Runs : \A k \in 1..Len(loggers.queue[r]) : loggers.queue[r][k] = r

---------------------------------------------------------------------------
(* Properties of a job and its client's stream (stated for SpecStream) *)

\* The moves of a job's status that the wrapper makes.
StatusMoves ==
    { <<"queued", "running">>, <<"running", "completed">>, <<"running", "error">>,
      <<"queued", "error">> }

\* C32: the job's status moves only queued -> running -> completed or
\* queued -> running -> error (queued -> error when the wrapper finds no log
\* queue), a terminal status is never replaced by another status, the status
\* becomes "completed" exactly when the run returned, the stored result then
\* being the dataset it returned, and "error" exactly when it raised.  The
\* deletion of the entry by the stream's cleanup is not counted as a move.
C32_StatusLifecycle ==
    /\ [][(task_statuses' # task_statuses /\ task_statuses # "absent"
              /\ task_statuses' # "absent")
            => (<<task_statuses, task_statuses'>> \in StatusMoves)]_vars
    /\ [][(task_statuses' # task_statuses /\ task_statuses' = "error")
            => (runOutcome = "raised" \/ pc = "wrapper_enter")]_vars
    /\ [](pc \in {"wrapper_finally", "wrapper_done"} /\ task_statuses # "absent"
            => (task_statuses = "completed" <=> runOutcome = "returned"))
    /\ [][(task_statuses' # task_statuses /\ task_statuses' = "completed")
            => /\ runOutcome = "returned"
               /\ task_results'.type = "data"
               /\ task_results'.data = stream.dataset]_vars

\* C33: once the job has finished and the client's stream has ended, by a
\* terminal event or by a disconnect at any time, the three dictionaries
\* hold no entry for the job.
C33_NoEntryLeftBehind ==
    (pc = "wrapper_done" /\ stream.at = "ended")
        => /\ ~task_queues
           /\ task_results.type = "absent"
           /\ task_statuses = "absent"

\* C34: the message of a terminal "error" status event is the failure
\* message the wrapper stored, never "Unknown error".
C34_ErrorEventCarriesStoredMessage ==
    \A k \in 1..Len(stream.events) :
        (stream.events[k].type = "status" /\ stream.events[k].data = "error")
            => /\ stream.events[k].message # "Unknown error"
               /\ stream.events[k].message = runError

\* The log events of a stream, in the order sent.
LogsSent(events) == SelectSeq(events, LAMBDA e : e.type = "log")

\* C36: for a client that stays connected, every entry put on the job's
\* queue, the run's records and the wrapper's two final lines, is sent as a
\* log event, in order, before the terminal event: when the stream has ended
\* and the wrapper is done nothing is left on the queue.
C36_EveryEntryDelivered ==
    (pc = "wrapper_done" /\ stream.at = "ended" /\ ~stream.disconnected)
        => /\ log_queue = <<>>
           /\ Len(LogsSent(stream.events)) = stream.logged + 2
           /\ \A k \in 1..stream.logged :
                 LogsSent(stream.events)[k].data = ToString(k)

===========================================================================
